---- MODULE Spec2Model ----
(***************************************************************************)
(* Browser engine of grok-cli (src/lib/browser.ts): one invocation of      *)
(* runGrokBrowser as a state machine.  The engine is a single async flow;  *)
(* every await that the claims distinguish is a position of pc.  The       *)
(* browser page is the environment: each in-page evaluation draws the      *)
(* snapshot it sees from a bounded set, a failed evaluation included.      *)
(***************************************************************************)
EXTENDS Integers, Sequences, FiniteSets, TLC

\* ------------------------------------------------------------------ bounds
\* The run clock is exact up to MaxClock and saturates there.
MaxClock == 6000
\* At most this many of the boolean options of GrokOptions are set in one run.
MaxFlags == 2
\* At most this many challenge markers are present in one page snapshot.
MaxMarkers == 1
\* A bounded wait that succeeds does so on one of its first MaxWaitPolls+1 polls.
MaxWaitPolls == 1
\* Most rows the cookie query selects.
MaxRows == 2
\* Most calls of one mode toggle.
MaxToggleCalls == 2
\* Most evaluations of detectChallenge in one pass of the challenge engine.
MaxDetections == 3

\* ------------------------------------------------------- program constants
STABLE_NEEDED == 3
STABLE_IGNORE_LOADING_AFTER_MS == 4000
POLL_MS == 300
MinTextLen == 20
MinFallbackLen == 50
maxRounds == 3
ChallengeGoneTimeoutMs == 30000
ChallengeGonePollMs == 1000
ConnectAttempts == 12
ConnectRetrySleepMs == 600
LaunchSettleMs == 1200
LoadEventRaceMs == 15000
PostNavigateSleepMs == 2500
ManualLoginIntervalMs == 3000
FindInputTimeoutMs == 30000
FindInputRetryTimeoutMs == 15000
FindInputIntervalMs == 1000
SubmitWaitMs == 12000
SubmitPollMs == 400
ImagePollMs == 1000

Min(a, b) == IF a < b THEN a ELSE b
Max(a, b) == IF a > b THEN a ELSE b

\* --------------------------------------------------------------------- state
VARIABLES
  opts,         \* the GrokOptions of the run
  pc,           \* position in runGrokBrowser
  ctx,          \* which caller is handling challenges: initial | manual | recheck
                \* ("none" outside)
  round,        \* round of checkAndHandleChallenges
  kind,         \* ChallengeKind being handled ("none" outside handleChallenge)
  page,         \* the snapshot that was classified as kind
  sawLoginPage, \* a detection saw a login-redirect URL; cleared once input
                \* location is attempted
  sawLoginOnly, \* ... on a page with no other challenge marker
  midChallenge, \* the mid-capture detection the engine is prompting for
  launcher,     \* this run launched a Chrome process
  client,       \* the CDP client was obtained
  attempt,      \* failed attempts of the connectCDP call in progress
  closed,       \* client.close() was attempted
  killed,       \* launcher.kill() was called
  now,          \* Date.now() - startTime, saturating at MaxClock
  waitLeft,     \* time left to the deadline of the manual-login waitFor
  authed,       \* latest verifyGrokAuth result: "unchecked" | "yes" | "no"
  acted,        \* interaction steps performed so far
  ev,           \* what the latest step did
  capT,         \* Date.now() - startTime of captureResponse at the loop head
  lastText, stableCount,
  lastSeen,     \* text of the latest completed poll that saw text
  streak,       \* latest consecutive completed polls that saw the same text
  calm,         \* of these, the latest consecutive ones without busy indicator
  lastElapsed,  \* elapsed of the latest completed poll
  answer, result, imageUrl, err, durationMs,
  \* the main command of bin/grok.ts, which calls runGrokBrowser
  cli,          \* its preview and output flags: copy, render, dryRun, writeOutput
  mainPc,       \* position in the main action ("none": the engine runs alone)
  sessionId,    \* generateSessionId() was called
  bundleSaved,  \* saveBundleText() wrote the bundle file
  sessionStatus, \* status of the persisted session record ("absent": no record)
  wasCompleted, \* the record has been written with status 'completed'
  clipboard,    \* what the latest successful clipboard write put there
  printed,      \* what was printed to stdout so far
  outputFile,   \* writeOutputFile() wrote the answer
  browserCalls, \* calls of runGrokBrowser
  exitCode,     \* argument of process.exit ("none": not called)
  \* resolveCookies, step by step
  sources,      \* what each credential source holds: unset | bad | empty | set
  ckPc,         \* position in resolveCookies ("none": not modelled step by step)
  consulted,    \* the sources consulted so far, in order
  cookies,      \* the resolved credential set: the sources its cookies come from
  resolutions,  \* calls of resolveCookies
  \* readChromeCookies, one call
  dbState,      \* the cookie database: missing | noTemp | locked | noDriver |
                \* badSchema | ok
  rows,         \* the rows the query selects
  macKey,       \* getMacOSChromeKey() yields a key (only on darwin)
  rdPc,         \* position in readChromeCookies ("none": not running)
  tmpDir,       \* its temporary directory: none | present | removed
  tmpDb,        \* the copied database file exists
  dbOpen,       \* the database handle is open
  rdResult,     \* how the call ended: none | null | cookies | threw
  rdCookies,    \* the CookieParam list it returned
  \* enableThinkMode / enableDeepSearch called on a page, repeatedly
  controls,     \* per mode, its toggle control: absent | inactive | active
  controls0,    \* ... as it was before the first call
  clickWorks,   \* the page marks a control active when it is clicked
  toggleCalls,  \* per mode, the completed calls of its toggle
  clicks,       \* per mode, the clicks these calls made
  \* detectChallenge called repeatedly by the challenge engine
  dom,          \* the page state the next evaluation sees
  otherDom,     \* the page state the page alternates with
  detections,   \* the evaluations made so far: page state seen, value returned
  polled,       \* waitForChallengeGone, poll by poll: the values its
                \* re-detections returned so far in the current call; once
                \* the call has returned true, the value that decided it
  \* findElement and the toggle script, scanning an ordered selector list
  selectors,    \* what the page holds for each selector of the list, in order
  located,      \* what findElement returned: the position of a selector,
                \* 0 for null (-1: not called)
  toggled,      \* what the toggle script did: the selector it returned and
                \* the selectors whose element it clicked (-1: not run)
  \* submitPrompt, request by request
  button,       \* the page's submit control: absent | disabled | enabled
  sent,         \* the submission actions the call has made so far, in order:
                \* click | keyDown | keyUp
  \* the places where runGrokBrowser has more than one operation in progress
  reads,        \* per domain, the readChromeCookies call of the store branch:
                \* idle | importing (suspended with its copy on disk) | null |
                \* cookies | threw
  outstanding,  \* CDP requests of triggerReadAloud that await their reply
  listening,    \* its Network.requestWillBeSent callback is registered
  capturedAudioUrl,\* the callback has stored a URL
  \* the store branch of resolveCookies over its candidate paths
  cookiePaths,  \* what is at each candidate path, in order: missing | empty |
                \* failing | cookies
  pathsRead,    \* the candidate paths readChromeCookies was called on
  \* the session store: one operation on one session id
  sid,          \* the session id, character by character
  generated,    \* the id was produced by generateSessionId
  ssOp,         \* the operation called with it ("none": not yet)
  ssResult,     \* how it ended: none | threw | null | value | written
  touched,      \* the paths it handed to existsSync, readFileSync, writeFileSync
  dirMade       \* mkdirSync was called on the sessions directory

\* ------------------------------------------------------------- the options
ModeFlags == {"headless", "think", "deepSearch", "imagine", "readAloud"}
Flags == {"remoteChrome", "keepBrowser", "manualLogin"} \cup ModeFlags

BrowserTimeouts == {3000, 6000}
ResponseTimeouts == {1500}
CaptureTimeouts == {900, 3000, 6000}

OptionRecords(bts, rts) ==
  [remoteChrome : BOOLEAN, keepBrowser : BOOLEAN, manualLogin : BOOLEAN,
   headless : BOOLEAN, think : BOOLEAN, deepSearch : BOOLEAN,
   imagine : BOOLEAN, readAloud : BOOLEAN,
   browserTimeout : bts, responseTimeout : rts]

GrokOptions(bts, rts) ==
  {o \in OptionRecords(bts, rts) : Cardinality({f \in Flags : o[f]}) <= MaxFlags}

\* ---------------------------------------------------------- page snapshots
GrokUrl == "https://grok.com/"
LoginUrl == "https://x.com/i/flow/login"
OtherUrl == "https://accounts.x.ai/sign-in"
Urls == {GrokUrl, LoginUrl, OtherUrl}

Markers == {"interstitial", "turnstile", "arkose", "recaptcha", "hcaptcha"}

\* A snapshot whose evaluation succeeded, and the one Runtime.evaluate throws on.
Pages == {p \in [url : Urls, markers : SUBSET Markers, ok : {TRUE}] :
            Cardinality(p.markers) <= MaxMarkers}
EvalError == [url |-> "", markers |-> {}, ok |-> FALSE]
Snapshots == Pages \cup {EvalError}
BlankPage == [url |-> GrokUrl, markers |-> {}, ok |-> TRUE]

ChallengeKind == {"cloudflare-turnstile", "cloudflare-challenge", "arkose-funcaptcha",
                  "recaptcha", "hcaptcha", "login-wall", "none"}

IsLoginRedirectUrl(u) == u = LoginUrl

\* detectChallenge: first match in the order of the in-page script; a thrown
\* evaluation is caught and yields 'none'.
\* A detection that tests the login URL before the markers.
DetectLoginFirst(p) ==
  IF ~p.ok THEN "none"
  ELSE IF IsLoginRedirectUrl(p.url) THEN "login-wall"
  ELSE IF "interstitial" \in p.markers THEN "cloudflare-challenge"
  ELSE IF "turnstile" \in p.markers THEN "cloudflare-turnstile"
  ELSE IF "arkose" \in p.markers THEN "arkose-funcaptcha"
  ELSE IF "recaptcha" \in p.markers THEN "recaptcha"
  ELSE IF "hcaptcha" \in p.markers THEN "hcaptcha"
  ELSE "none"

\* A detection that carries over the kind still being handled.
DetectKeepsHandledKind(p) ==
  IF kind # "none" THEN kind
  ELSE IF ~p.ok THEN "none"
  ELSE IF "interstitial" \in p.markers THEN "cloudflare-challenge"
  ELSE IF "turnstile" \in p.markers THEN "cloudflare-turnstile"
  ELSE IF "arkose" \in p.markers THEN "arkose-funcaptcha"
  ELSE IF "recaptcha" \in p.markers THEN "recaptcha"
  ELSE IF "hcaptcha" \in p.markers THEN "hcaptcha"
  ELSE IF IsLoginRedirectUrl(p.url) THEN "login-wall"
  ELSE "none"

DetectNoLoginWall(p) ==
  IF ~p.ok THEN "none"
  ELSE IF "interstitial" \in p.markers THEN "cloudflare-challenge"
  ELSE IF "turnstile" \in p.markers THEN "cloudflare-turnstile"
  ELSE IF "arkose" \in p.markers THEN "arkose-funcaptcha"
  ELSE IF "recaptcha" \in p.markers THEN "recaptcha"
  ELSE IF "hcaptcha" \in p.markers THEN "hcaptcha"
  ELSE "none"

detectChallenge(p) ==
  IF ~p.ok THEN "none"
  ELSE IF "interstitial" \in p.markers THEN "cloudflare-challenge"
  ELSE IF "turnstile" \in p.markers THEN "cloudflare-turnstile"
  ELSE IF "arkose" \in p.markers THEN "arkose-funcaptcha"
  ELSE IF "recaptcha" \in p.markers THEN "recaptcha"
  ELSE IF "hcaptcha" \in p.markers THEN "hcaptcha"
  ELSE IF IsLoginRedirectUrl(p.url) THEN "login-wall"
  ELSE "none"

\* verifyGrokAuth: false on a login URL, true on grok.com, false otherwise and
\* on a thrown evaluation.
verifyGrokAuth(p) ==
  IF ~p.ok THEN FALSE
  ELSE IF p.url = LoginUrl THEN FALSE
  ELSE p.url = GrokUrl


\* ------------------------------------------------- challenge handling tables
\* handleChallenge dispatch: the two Cloudflare kinds poll for self-clearance,
\* the captcha kinds suspend for the human, login-wall throws.
HandleAlwaysPrompts(k) ==
  IF k \in {"cloudflare-challenge", "cloudflare-turnstile"} THEN "poll"
  ELSE "prompt"

HandleCaptchaByPolling(k) ==
  IF k \in {"cloudflare-challenge", "cloudflare-turnstile", "arkose-funcaptcha", "recaptcha",
            "hcaptcha"}
  THEN "poll"
  ELSE "throw"

handleChallenge(k) ==
  IF k \in {"cloudflare-challenge", "cloudflare-turnstile"} THEN "poll"
  ELSE IF k \in {"arkose-funcaptcha", "recaptcha", "hcaptcha"} THEN "prompt"
  ELSE "throw"

\* Settle delay after the human acknowledged.
SettleMs(k) ==
  IF k = "arkose-funcaptcha" THEN 2000
  ELSE IF k \in {"recaptcha", "hcaptcha"} THEN 1500
  ELSE 0

\* Round-trip latency of the in-page evaluations of one capture poll.
Latencies == {0, 100}

\* How long the human takes to press Enter.
HumanDelays == {1000, 5000}

AfterChallengesRetriesFirst(c) ==
  IF c = "initial" THEN [pc |-> "auth", d |-> 1000]
  ELSE [pc |-> "findInput1", d |-> 0]

\* Where runGrokBrowser continues when checkAndHandleChallenges returns, and
\* the sleep that follows the call.
AfterChallenges(c) ==
  IF c = "initial" THEN [pc |-> "auth", d |-> 1000]
  ELSE [pc |-> "findInput2", d |-> 0]

AfterHandleFourRounds(c, r) ==
  IF c = "manual" THEN [pc |-> "manualVerify", d |-> 0, round |-> r, ctx |-> c]
  ELSE IF r + 1 < maxRounds + 1
  THEN [pc |-> "detect", d |-> 1000, round |-> r + 1, ctx |-> c]
  ELSE [pc |-> AfterChallenges(c).pc, d |-> 1000 + AfterChallenges(c).d,
        round |-> 0, ctx |-> "none"]

\* After handleChallenge returned: the manual-login poll goes on to the auth
\* check; checkAndHandleChallenges sleeps 1 s and starts the next round, and
\* returns after maxRounds rounds.
AfterHandle(c, r) ==
  IF c = "manual" THEN [pc |-> "manualVerify", d |-> 0, round |-> r, ctx |-> c]
  ELSE IF r + 1 < maxRounds
  THEN [pc |-> "detect", d |-> 1000, round |-> r + 1, ctx |-> c]
  ELSE [pc |-> AfterChallenges(c).pc, d |-> 1000 + AfterChallenges(c).d,
        round |-> 0, ctx |-> "none"]

\* ------------------------------------------------------------ teardown rules
\* The finally block of runGrokBrowser: client.close() in both branches,
\* launcher.kill() only when keepBrowser is off.
CloseOnlyWhenNotKept(o, hasClient) == hasClient /\ ~o.keepBrowser

closeAttempted(o, hasClient) == hasClient

KillOnlyWhenConnected(o, hasLauncher, hasClient) ==
  hasLauncher /\ hasClient /\ ~o.keepBrowser

killAttempted(o, hasLauncher, hasClient) == hasLauncher /\ ~o.keepBrowser

\* ---------------------------------------------------------- response capture
ShortText == "Yes."
TextA == "Recursion is when a function calls itself."
TextB == "Recursion is when a function calls itself, until a base case stops it."
DomTexts == {"", ShortText, TextA, TextB}

\* One poll's view of the page: text of the last response-container match, the
\* largest text block outside the input area, the busy indicator.
PollViews == [primary : DomTexts, fallback : {"", TextA, TextB}, busy : BOOLEAN]

\* The in-page extraction script of captureResponse.
ExtractText(primary, fallback) ==
  IF Len(primary) > MinTextLen THEN primary
  ELSE IF Len(fallback) > MinFallbackLen THEN fallback
  ELSE ""

ConsiderDoneIgnoresBusy(isStable, isLoading, elapsed) == isStable

ConsiderDoneNoGrace(isStable, isLoading, elapsed) == isStable /\ ~isLoading

considerDone(isStable, isLoading, elapsed) ==
  isStable /\ (~isLoading \/ elapsed > STABLE_IGNORE_LOADING_AFTER_MS)

\* The rolling comparison of one poll: the new tracked text and counter, and
\* whether the poll returns currentText.
TrackKeepsFirstText(last, count, currentText, isLoading, elapsed) ==
  IF Len(currentText) > MinTextLen
  THEN IF currentText = last
       THEN [lastText |-> last, stableCount |-> count + 1,
             done |-> count + 1 >= STABLE_NEEDED /\ considerDone(TRUE, isLoading, elapsed)]
       ELSE [lastText |-> IF last = "" THEN currentText ELSE last,
             stableCount |-> 0, done |-> FALSE]
  ELSE [lastText |-> last, stableCount |-> count, done |-> FALSE]

TrackNeedsOneMore(last, count, currentText, isLoading, elapsed) ==
  IF Len(currentText) > MinTextLen
  THEN IF currentText = last
       THEN [lastText |-> last, stableCount |-> count + 1,
             done |-> count + 1 > STABLE_NEEDED /\ considerDone(TRUE, isLoading, elapsed)]
       ELSE [lastText |-> currentText, stableCount |-> 0, done |-> FALSE]
  ELSE [lastText |-> last, stableCount |-> count, done |-> FALSE]

TrackAnyText(last, count, currentText, isLoading, elapsed) ==
  IF currentText = last
  THEN [lastText |-> last, stableCount |-> count + 1,
        done |-> count + 1 >= STABLE_NEEDED /\ considerDone(TRUE, isLoading, elapsed)]
  ELSE [lastText |-> currentText, stableCount |-> 0, done |-> FALSE]

trackPoll(last, count, currentText, isLoading, elapsed) ==
  IF Len(currentText) > MinTextLen
  THEN IF currentText = last
       THEN [lastText |-> last, stableCount |-> count + 1,
             done |-> count + 1 >= STABLE_NEEDED /\ considerDone(TRUE, isLoading, elapsed)]
       ELSE [lastText |-> currentText, stableCount |-> 0, done |-> FALSE]
  ELSE [lastText |-> last, stableCount |-> count, done |-> FALSE]

\* After the loop: the partial text if any was tracked, else the timeout error.
TimeoutAlwaysReturns(last) == "partial"

onCaptureTimeout(last) == IF last # "" THEN "partial" ELSE "throw"

procVars == <<launcher, client, attempt, closed, killed>>
chalVars == <<ctx, round, kind, page, sawLoginPage, sawLoginOnly>>
seenVars == <<sawLoginPage, sawLoginOnly>>
capVars == <<capT, midChallenge, lastText, stableCount, lastSeen, streak, calm, lastElapsed>>
outVars == <<answer, result, imageUrl, err, durationMs>>
mainVars == <<cli, mainPc, sessionId, bundleSaved, sessionStatus, wasCompleted, clipboard,
              printed, outputFile, browserCalls, exitCode>>
ckVars == <<sources, ckPc, consulted, cookies, resolutions>>
rdVars == <<dbState, rows, macKey, rdPc, tmpDir, tmpDb, dbOpen, rdResult, rdCookies>>
tgVars == <<controls, controls0, clickWorks, toggleCalls, clicks>>
dtVars == <<dom, otherDom, detections, polled>>
lcVars == <<selectors, located, toggled>>
sbVars == <<button, sent>>
chVars == <<reads, outstanding, listening, capturedAudioUrl>>
spVars == <<cookiePaths, pathsRead>>
ssVars == <<sid, generated, ssOp, ssResult, touched, dirMade>>
\* What a step of runGrokBrowser never touches.
sideVars == <<mainVars, ckVars, rdVars, tgVars, dtVars, lcVars, sbVars, chVars, spVars, ssVars>>
\* What a step of the main command, of resolveCookies, of readChromeCookies
\* and of the repeated toggles never touches.
besideMain == <<ckVars, rdVars, tgVars, dtVars, lcVars, sbVars, chVars, spVars, ssVars>>
besideCk == <<mainVars, rdVars, tgVars, dtVars, lcVars, sbVars, chVars, spVars, ssVars>>
besideRd == <<mainVars, ckVars, tgVars, dtVars, lcVars, sbVars, chVars, spVars, ssVars>>
besideTg == <<mainVars, ckVars, rdVars, dtVars, lcVars, sbVars, chVars, spVars, ssVars>>
besideDt == <<mainVars, ckVars, rdVars, tgVars, lcVars, sbVars, chVars, spVars, ssVars>>
besideLc == <<mainVars, ckVars, rdVars, tgVars, dtVars, sbVars, chVars, spVars, ssVars>>
besideSb == <<mainVars, ckVars, rdVars, tgVars, dtVars, lcVars, chVars, spVars, ssVars>>
besideCh == <<mainVars, ckVars, rdVars, tgVars, dtVars, lcVars, sbVars, spVars, ssVars>>
\* The store branch shares ckVars with resolveCookies.
besideSp == <<mainVars, rdVars, tgVars, dtVars, lcVars, sbVars, chVars, ssVars>>
besideSs == <<mainVars, ckVars, rdVars, tgVars, dtVars, lcVars, sbVars, chVars, spVars>>
\* The state of runGrokBrowser that no step outside it touches.
engineLocals == <<opts, now, waitLeft, authed, acted, ev, procVars, chalVars, capVars>>
vars == <<opts, pc, now, waitLeft, authed, acted, ev, procVars, chalVars, capVars, outVars,
          sideVars>>

NoFlags == [copy |-> FALSE, render |-> FALSE, dryRun |-> FALSE, writeOutput |-> FALSE]

\* The main command before it starts; with at = "none" it never runs.
MainIdle(c, at) ==
  /\ cli = c /\ mainPc = at
  /\ sessionId = FALSE /\ bundleSaved = FALSE
  /\ sessionStatus = "absent" /\ wasCompleted = FALSE
  /\ clipboard = "empty" /\ printed = {} /\ outputFile = FALSE
  /\ browserCalls = 0 /\ exitCode = "none"

SourceNames == <<"inline", "file", "auto", "store">>
NoSources == [s \in {"inline", "file", "auto", "store"} |-> "unset"]

\* resolveCookies before it is called; with at = "none" it is not stepped.
CookiesIdle(so, at) ==
  /\ sources = so /\ ckPc = at
  /\ consulted = <<>> /\ cookies = {} /\ resolutions = 0

\* readChromeCookies before it is called; with at = "none" it never runs.
ReadIdle(db, rs, key, at) ==
  /\ dbState = db /\ rows = rs /\ macKey = key /\ rdPc = at
  /\ tmpDir = "none" /\ tmpDb = FALSE /\ dbOpen = FALSE
  /\ rdResult = "none" /\ rdCookies = {}

NoRead == ReadIdle("missing", {}, FALSE, "none")

Modes == {"think", "deepSearch"}

\* The page's toggle controls before any toggle call.
TogglesIdle(cs, works) ==
  /\ controls = cs /\ controls0 = cs /\ clickWorks = works
  /\ toggleCalls = [m \in Modes |-> 0] /\ clicks = [m \in Modes |-> 0]

NoToggles == TogglesIdle([m \in Modes |-> "absent"], FALSE)

\* The page before any evaluation of detectChallenge that is recorded.
DetectIdle(p, q) == dom = p /\ otherDom = q /\ detections = <<>> /\ polled = <<>>

NoDetect == DetectIdle(BlankPage, BlankPage)

\* A selector list before it is scanned.
NotToggled == [returned |-> -1, clicked |-> {}]

LocateIdle(sels) == selectors = sels /\ located = -1 /\ toggled = NotToggled

NoLocate == LocateIdle(<<>>)

\* The submit control before submitPrompt is called.
SubmitIdle(b) == button = b /\ sent = <<>>

NoSubmit == SubmitIdle("absent")

Domains == {"grok.com", "x.com"}

\* No store read and no read-aloud request has been started.
NoChannel ==
  /\ reads = [d \in Domains |-> "idle"]
  /\ outstanding = 0 /\ listening = FALSE /\ capturedAudioUrl = FALSE

\* The candidate paths before the store branch runs.
StorePathsIdle(paths) == cookiePaths = paths /\ pathsRead = {}

NoStorePaths == StorePathsIdle(<<>>)

\* A session id before any store operation is called with it.
SessionsIdle(id) ==
  /\ sid = id /\ generated = FALSE /\ ssOp = "none" /\ ssResult = "none"
  /\ touched = {} /\ dirMade = FALSE

NoSessions == SessionsIdle(<<>>)

\* The subsystems that are stepped on their own, at rest.
OthersIdle ==
  MainIdle(NoFlags, "none") /\ CookiesIdle(NoSources, "none") /\ NoRead /\ NoToggles /\ NoLocate /\ NoSubmit /\ NoChannel /\ NoStorePaths /\ NoSessions

\* runGrokBrowser called on its own.
SideIdle == OthersIdle /\ NoDetect

InitState(o, at) ==
  /\ opts = o
  /\ pc = at
  /\ ctx = "none" /\ round = 0 /\ kind = "none" /\ page = BlankPage
  /\ sawLoginPage = FALSE /\ sawLoginOnly = FALSE /\ midChallenge = "none"
  /\ launcher = FALSE /\ client = FALSE /\ attempt = 0
  /\ closed = FALSE /\ killed = FALSE
  /\ now = 0 /\ waitLeft = 0
  /\ authed = "unchecked" /\ acted = {} /\ ev = {}
  /\ capT = 0 /\ lastText = "" /\ stableCount = 0
  /\ lastSeen = "" /\ streak = 0 /\ calm = 0 /\ lastElapsed = 0
  /\ answer = "" /\ result = "none" /\ imageUrl = "unset"
  /\ err = "none" /\ durationMs = 0

Init ==
  /\ \E o \in GrokOptions(BrowserTimeouts, ResponseTimeouts) : InitState(o, "start")
  /\ SideIdle

\* Time passes: the run clock and the manual-login deadline.
Elapse(d) ==
  /\ now' = Min(now + d, MaxClock)
  /\ waitLeft' = Max(waitLeft - d, 0)

\* An error unwinds to the finally block.
Throw(e) ==
  /\ pc' = "finally"
  /\ err' = e
  /\ UNCHANGED <<answer, result, imageUrl, durationMs>>


\* ------------------------------------------------------ 1. launch or attach
\* connectRemoteCDP: one connection attempt; a failure propagates.
ConnectRemoteCDP ==
  /\ pc = "start" /\ opts.remoteChrome
  /\ \E ok \in BOOLEAN :
       IF ok
       THEN /\ client' = TRUE /\ pc' = "enable"
            /\ UNCHANGED outVars
       ELSE /\ Throw("TransportError") /\ UNCHANGED client
  /\ ev' = {"connect"}
  /\ UNCHANGED <<sideVars, opts, now, waitLeft, authed, acted, launcher, attempt, closed, killed,
                 chalVars, capVars>>

\* launchChrome, launcher = l, sleep(1200); a failed launch leaves no launcher.
LaunchChrome ==
  /\ pc = "start" /\ ~opts.remoteChrome
  /\ \E ok \in BOOLEAN :
       IF ok
       THEN /\ launcher' = TRUE /\ pc' = "connect" /\ Elapse(LaunchSettleMs)
            /\ UNCHANGED outVars
       ELSE /\ Throw("LaunchError") /\ UNCHANGED <<launcher, now, waitLeft>>
  /\ ev' = {"launch"}
  /\ UNCHANGED <<sideVars, opts, authed, acted, client, attempt, closed, killed, chalVars, capVars>>

RetriesOnceMore(failed) == failed < ConnectAttempts + 1

\* The loop condition of connectCDP after this many failed attempts.
retriesLeft(failed) == failed < ConnectAttempts

\* connectCDP: one iteration of the retry loop; the error after the last one.
ConnectCDP ==
  /\ pc = "connect"
  /\ \E ok \in BOOLEAN :
       IF ok
       THEN /\ client' = TRUE /\ pc' = "enable" /\ attempt' = 0
            /\ UNCHANGED <<now, waitLeft, outVars>>
       ELSE /\ attempt' = attempt + 1
            /\ Elapse(ConnectRetrySleepMs)
            /\ UNCHANGED client
            /\ IF retriesLeft(attempt + 1)
               THEN pc' = pc /\ UNCHANGED outVars
               ELSE Throw("TransportError")
  /\ ev' = {"connect"}
  /\ UNCHANGED <<sideVars, opts, authed, acted, launcher, closed, killed, chalVars, capVars>>

\* A step that is one or more CDP calls and touches nothing else: it either
\* completes after d ms or throws.
CdpStep(at, next, d, what) ==
  /\ pc = at
  /\ \E ok \in BOOLEAN :
       IF ok
       THEN /\ pc' = next /\ Elapse(d) /\ UNCHANGED outVars
       ELSE /\ Throw("ProtocolError") /\ UNCHANGED <<now, waitLeft>>
  /\ ev' = {what}
  /\ UNCHANGED <<sideVars, opts, authed, acted, procVars, chalVars, capVars>>

\* Network.enable, Page.enable, Runtime.enable.
EnableDomains == CdpStep("enable", "stealth", 0, "enable")

\* ------------------------------------------------------------- 2. stealth
InjectStealth == CdpStep("stealth", "cookies", 0, "stealth")

\* ------------------------------------------------------------- 3. cookies
\* resolveCookies and setCookies: a malformed inline payload throws.
ResolveCookies ==
  /\ pc = "cookies"
  /\ \E ok \in BOOLEAN :
       IF ok
       THEN /\ pc' = "navigate" /\ UNCHANGED outVars
       ELSE Throw("CookieError")
  /\ ev' = {"cookies"}
  /\ UNCHANGED <<sideVars, opts, now, waitLeft, authed, acted, procVars, chalVars, capVars>>

\* ------------------------------------------------------------ 4. navigate
\* Page.navigate, the race of the load event against 15 s, sleep(2500).
Navigate ==
  /\ pc = "navigate"
  /\ \E ok \in BOOLEAN, load \in {0, LoadEventRaceMs} :
       IF ok
       THEN /\ pc' = "detect" /\ Elapse(load + PostNavigateSleepMs)
            /\ ctx' = "initial" /\ round' = 0
            /\ UNCHANGED outVars
       ELSE /\ Throw("ProtocolError") /\ UNCHANGED <<now, waitLeft, ctx, round>>
  /\ ev' = {"navigate"}
  /\ UNCHANGED <<sideVars, opts, authed, acted, procVars, kind, page, seenVars, capVars>>

\* ---------------------------------------------------------- 5. challenges
\* What a detection records of the snapshot it classified, while no input
\* location has been attempted yet.
Observe(p) ==
  LET early == "find" \notin acted /\ p.ok /\ IsLoginRedirectUrl(p.url)
  IN /\ sawLoginPage' = (sawLoginPage \/ early)
     /\ sawLoginOnly' = (sawLoginOnly \/ (early /\ p.markers = {}))

\* One round of checkAndHandleChallenges: detect, return on 'none'.
DetectRound ==
  /\ pc = "detect"
  /\ \E p \in Snapshots :
       /\ Observe(p)
       /\ IF detectChallenge(p) = "none"
          THEN /\ pc' = AfterChallenges(ctx).pc
               /\ Elapse(AfterChallenges(ctx).d)
               /\ kind' = "none" /\ page' = BlankPage
               /\ ctx' = "none" /\ round' = 0
          ELSE /\ pc' = "handle"
               /\ kind' = detectChallenge(p) /\ page' = p
               /\ UNCHANGED <<now, waitLeft, ctx, round>>
  /\ ev' = {"detect"}
  /\ UNCHANGED <<sideVars, opts, authed, acted, procVars, capVars, outVars>>

\* handleChallenge for the Cloudflare kinds: waitForChallengeGone re-detects
\* once per second for 30 s; cleared means 'none' or another kind.
HandleCloudflare ==
  /\ pc = "handle" /\ handleChallenge(kind) = "poll"
  /\ \/ \E i \in 1..(MaxWaitPolls + 1), k \in {detectChallenge(q) : q \in Snapshots} :
          /\ k # kind
          /\ pc' = AfterHandle(ctx, round).pc
          /\ round' = AfterHandle(ctx, round).round
          /\ ctx' = AfterHandle(ctx, round).ctx
          /\ Elapse(i * 1000 + AfterHandle(ctx, round).d)
          /\ kind' = "none" /\ page' = BlankPage
     \/ /\ pc' = "prompt"
        /\ Elapse(ChallengeGoneTimeoutMs)
        /\ UNCHANGED <<ctx, round, kind, page>>
  /\ ev' = {"detect"}
  /\ UNCHANGED <<sideVars, opts, authed, acted, procVars, seenVars, capVars, outVars>>

\* handleChallenge for the captcha kinds: straight to the console prompt.
HandleCaptcha ==
  /\ pc = "handle" /\ handleChallenge(kind) = "prompt"
  /\ pc' = "prompt"
  /\ ev' = {}
  /\ UNCHANGED <<sideVars, opts, now, waitLeft, authed, acted, procVars, chalVars, capVars, outVars>>

\* handleChallenge for login-wall: the terminal error.
HandleLoginWall ==
  /\ pc = "handle" /\ handleChallenge(kind) = "throw"
  /\ Throw("ChallengeUnresolved")
  /\ ev' = {}
  /\ UNCHANGED <<sideVars, opts, now, waitLeft, authed, acted, procVars, chalVars, capVars>>

\* promptUser resolves when the human presses Enter; then the settle delay.
Acknowledge ==
  /\ pc = "prompt"
  /\ \E d \in HumanDelays :
       Elapse(d + SettleMs(kind) + AfterHandle(ctx, round).d)
  /\ pc' = AfterHandle(ctx, round).pc
  /\ round' = AfterHandle(ctx, round).round
  /\ ctx' = AfterHandle(ctx, round).ctx
  /\ kind' = "none" /\ page' = BlankPage
  /\ ev' = {"prompt"}
  /\ UNCHANGED <<sideVars, opts, authed, acted, procVars, seenVars, capVars, outVars>>

\* ---------------------------------------------------------------- 6. auth
\* Without manualLogin: one verifyGrokAuth; the run proceeds either way.
VerifyAuth ==
  /\ pc = "auth" /\ ~opts.manualLogin
  /\ \E a \in {verifyGrokAuth(q) : q \in Snapshots} : authed' = IF a THEN "yes" ELSE "no"
  /\ pc' = "findInput1"
  /\ ev' = {"auth"}
  /\ UNCHANGED <<sideVars, opts, now, waitLeft, acted, procVars, chalVars, capVars, outVars>>

\* With manualLogin: waitFor(..., opts.browserTimeout, 3000) sets its deadline.
BeginManualLogin ==
  /\ pc = "auth" /\ opts.manualLogin
  /\ waitLeft' = opts.browserTimeout
  /\ ctx' = "manual"
  /\ pc' = "manual"
  /\ ev' = {}
  /\ UNCHANGED <<sideVars, opts, now, authed, acted, procVars, round, kind, page, seenVars, capVars,
                 outVars>>

\* One poll of the manual-login wait: detect, and handle what was detected.
ManualLoginPoll ==
  /\ pc = "manual" /\ waitLeft > 0
  /\ \E p \in Snapshots :
       /\ Observe(p)
       /\ IF detectChallenge(p) = "none"
          THEN pc' = "manualVerify" /\ kind' = "none" /\ page' = BlankPage
          ELSE pc' = "handle" /\ kind' = detectChallenge(p) /\ page' = p
  /\ ev' = {"detect"}
  /\ UNCHANGED <<sideVars, opts, now, waitLeft, authed, acted, procVars, ctx, round, capVars, outVars>>

\* The rest of the poll: the auth check, and sleep(3000) when it fails.
ManualVerify ==
  /\ pc = "manualVerify"
  /\ \E a \in {verifyGrokAuth(q) : q \in Snapshots} :
       IF a
       THEN /\ authed' = "yes" /\ pc' = "findInput1"
            /\ ctx' = "none" /\ waitLeft' = 0
            /\ UNCHANGED now
       ELSE /\ authed' = "no" /\ pc' = "manual"
            /\ Elapse(ManualLoginIntervalMs)
            /\ UNCHANGED ctx
  /\ ev' = {"auth"}
  /\ UNCHANGED <<sideVars, opts, acted, procVars, round, kind, page, seenVars, capVars, outVars>>

\* The deadline of the manual-login wait passed.
ManualLoginTimeout ==
  /\ pc = "manual" /\ waitLeft = 0
  /\ Throw("WaitTimeout")
  /\ ev' = {}
  /\ UNCHANGED <<sideVars, opts, now, waitLeft, authed, acted, procVars, chalVars, capVars>>

\* ------------------------------------------------------- 7. find the input
AfterInputSkipsPaste(o) == "submit"

\* The step after the input was found: the mode toggles that are on, then paste.
AfterInput(o) ==
  IF o.think THEN "think" ELSE IF o.deepSearch THEN "deepSearch" ELSE "paste"

\* waitFor(findElement, 30 s, 1 s); on timeout the challenge recheck.
FindInput ==
  /\ pc = "findInput1"
  /\ \/ \E i \in 0..MaxWaitPolls :
          /\ pc' = AfterInput(opts)
          /\ Elapse(i * FindInputIntervalMs)
          /\ UNCHANGED <<ctx, round>>
     \/ /\ pc' = "detect" /\ ctx' = "recheck" /\ round' = 0
        /\ Elapse(FindInputTimeoutMs)
  /\ acted' = acted \cup {"find"}
  /\ sawLoginPage' = FALSE /\ sawLoginOnly' = FALSE
  /\ ev' = {"find"}
  /\ UNCHANGED <<sideVars, opts, authed, procVars, kind, page, capVars, outVars>>

\* The second waitFor(findElement, 15 s, 1 s): its timeout propagates.
FindInputRetry ==
  /\ pc = "findInput2"
  /\ \/ \E i \in 0..MaxWaitPolls :
          /\ pc' = AfterInput(opts)
          /\ Elapse(i * FindInputIntervalMs)
          /\ UNCHANGED outVars
     \/ /\ Throw("LocatorNotFound")
        /\ Elapse(FindInputRetryTimeoutMs)
  /\ acted' = acted \cup {"find"}
  /\ ev' = {"find"}
  /\ UNCHANGED <<sideVars, opts, authed, procVars, chalVars, capVars>>

\* --------------------------------------------------------- 8. mode toggles
\* enableThinkMode / enableDeepSearch: one in-page evaluation; sleep(500) when
\* a toggle was found.
ModeStep(at, next) ==
  /\ pc = at
  /\ \E ok \in BOOLEAN, found \in BOOLEAN :
       IF ok
       THEN /\ pc' = next /\ Elapse(IF found THEN 500 ELSE 0) /\ UNCHANGED outVars
       ELSE /\ Throw("ProtocolError") /\ UNCHANGED <<now, waitLeft>>
  /\ acted' = acted \cup {"toggle"}
  /\ ev' = {"toggle"}
  /\ UNCHANGED <<sideVars, opts, authed, procVars, chalVars, capVars>>

EnableThinkMode == ModeStep("think", IF opts.deepSearch THEN "deepSearch" ELSE "paste")

EnableDeepSearch == ModeStep("deepSearch", "paste")

\* ------------------------------------------------------ 9/10. paste, submit
\* pasteText: focus, sleep(200), insert, sleep(300).
PasteText ==
  /\ pc = "paste"
  /\ \E ok \in BOOLEAN :
       IF ok
       THEN /\ pc' = "submit" /\ Elapse(500) /\ UNCHANGED outVars
       ELSE /\ Throw("ProtocolError") /\ UNCHANGED <<now, waitLeft>>
  /\ acted' = acted \cup {"paste"}
  /\ ev' = {"paste"}
  /\ UNCHANGED <<sideVars, opts, authed, procVars, chalVars, capVars>>

\* submitPrompt and the sleep after it: a click on the enabled submit control,
\* else (the wait or the click threw) the Enter key on the input; a CDP error
\* in the fallback propagates.
SubmitPrompt ==
  /\ pc = "submit"
  /\ LET next == IF opts.imagine THEN "image" ELSE "capture"
         rest == IF opts.imagine THEN 2000 ELSE 1500
     IN \/ \E i \in 0..MaxWaitPolls, caught \in BOOLEAN :
             /\ pc' = next /\ UNCHANGED outVars
             /\ Elapse(i * SubmitPollMs + (IF caught THEN 180 ELSE 0) + rest)
        \/ /\ pc' = next /\ Elapse(SubmitWaitMs + 180 + rest) /\ UNCHANGED outVars
        \/ \E d \in {0, SubmitWaitMs} : Throw("ProtocolError") /\ Elapse(d)
  /\ acted' = acted \cup {"submit"}
  /\ ev' = {"submit"}
  /\ UNCHANGED <<sideVars, opts, authed, procVars, chalVars, capVars>>

\* ------------------------------------------------------------ image mode
\* Number of polls a loop with this interval makes before its deadline.
PollsWithin(timeoutMs, intervalMs) == (timeoutMs + intervalMs - 1) \div intervalMs

\* captureGeneratedImage returns null at its deadline, and runGrokBrowser
\* returns a result either way; downloadImage fetches http(s) sources only.
CaptureGeneratedImage ==
  /\ pc = "image"
  /\ \/ \E i \in 0..MaxWaitPolls, url \in {"https", "blob"}, ok \in BOOLEAN :
          /\ i < PollsWithin(opts.responseTimeout, ImagePollMs)
          /\ Elapse(i * ImagePollMs)
          /\ imageUrl' = url
          /\ IF url = "blob" \/ ok
             THEN /\ result' = "image" /\ answer' = "Image saved to"
                  /\ durationMs' = Min(now + i * ImagePollMs, MaxClock)
                  /\ pc' = "finally" /\ UNCHANGED err
             ELSE /\ pc' = "finally" /\ err' = "DownloadError"
                  /\ UNCHANGED <<answer, result, durationMs>>
     \/ /\ Elapse(PollsWithin(opts.responseTimeout, ImagePollMs) * ImagePollMs)
        /\ imageUrl' = "null"
        /\ result' = "image" /\ answer' = "Image saved to"
        /\ durationMs' = Min(now + PollsWithin(opts.responseTimeout, ImagePollMs) * ImagePollMs,
                             MaxClock)
        /\ pc' = "finally" /\ UNCHANGED err
  /\ ev' = {"image"}
  /\ UNCHANGED <<sideVars, opts, authed, acted, procVars, chalVars, capVars>>


\* -------------------------------------------------------- 11. captureResponse
\* captureResponse returned text: Read Aloud when asked for, else the result.
ReturnText(how, text, at) ==
  /\ result' = how
  /\ answer' = text
  /\ UNCHANGED <<imageUrl, err>>
  /\ IF opts.readAloud
     THEN pc' = "readAloud" /\ UNCHANGED durationMs
     ELSE pc' = "finally" /\ durationMs' = at

\* One iteration of the polling loop whose two evaluations completed.
PollResponse ==
  /\ pc = "capture" /\ capT < opts.responseTimeout
  /\ \E lat \in Latencies,
        v \in {[text |-> ExtractText(w.primary, w.fallback), busy |-> w.busy] : w \in PollViews} :
       LET elapsed == capT + lat
           currentText == v.text
           t == trackPoll(lastText, stableCount, currentText, v.busy, elapsed)
           same == streak > 0 /\ currentText = lastSeen
       IN /\ lastText' = t.lastText
          /\ stableCount' = t.stableCount
          /\ lastElapsed' = elapsed
          /\ lastSeen' = IF currentText # "" THEN currentText ELSE lastSeen
          /\ streak' = IF currentText = "" THEN 0 ELSE IF same THEN streak + 1 ELSE 1
          /\ calm' = IF currentText = "" \/ v.busy THEN 0 ELSE IF same THEN calm + 1 ELSE 1
          /\ IF t.done
             THEN /\ Elapse(lat) /\ capT' = elapsed
                  /\ ReturnText("answer", currentText, Min(now + lat, MaxClock))
                  /\ ev' = {"poll"}
                  /\ UNCHANGED midChallenge
             ELSE IF Len(currentText) = 0 /\ Len(lastText) = 0
             THEN \E k \in {detectChallenge(p) : p \in Snapshots} :
                    /\ midChallenge' = k
                    /\ ev' = {"poll", "detect"}
                    /\ UNCHANGED outVars
                    /\ IF k # "none"
                       THEN /\ pc' = "capPrompt"
                            /\ Elapse(lat) /\ capT' = elapsed
                       ELSE /\ pc' = pc
                            /\ Elapse(lat + POLL_MS) /\ capT' = elapsed + POLL_MS
             ELSE /\ pc' = pc
                  /\ Elapse(lat + POLL_MS) /\ capT' = elapsed + POLL_MS
                  /\ ev' = {"poll"}
                  /\ UNCHANGED <<midChallenge, outVars>>
  /\ UNCHANGED <<sideVars, opts, authed, acted, procVars, chalVars>>

\* An iteration in which Runtime.evaluate threw: caught, nothing is tracked.
PollError ==
  /\ pc = "capture" /\ capT < opts.responseTimeout
  /\ \E lat \in Latencies :
       /\ Elapse(lat + POLL_MS)
       /\ capT' = capT + lat + POLL_MS
  /\ streak' = 0 /\ calm' = 0
  /\ ev' = {"poll"}
  /\ UNCHANGED <<sideVars, opts, pc, authed, acted, procVars, chalVars, midChallenge, lastText,
                 stableCount, lastSeen, lastElapsed, outVars>>

\* The human acknowledged the mid-capture prompt: sleep(2000), then the
\* loop's sleep(POLL_MS).
AcknowledgeMidCapture ==
  /\ pc = "capPrompt"
  /\ \E d \in HumanDelays :
       /\ Elapse(d + 2000 + POLL_MS)
       /\ capT' = capT + d + 2000 + POLL_MS
  /\ pc' = "capture"
  /\ midChallenge' = "none"
  /\ ev' = {"prompt"}
  /\ UNCHANGED <<sideVars, opts, authed, acted, procVars, chalVars, lastText, stableCount,
                 lastSeen, streak, calm, lastElapsed, outVars>>

\* The loop ended at the deadline.
CaptureTimedOut ==
  /\ pc = "capture" /\ capT >= opts.responseTimeout
  /\ IF onCaptureTimeout(lastText) = "partial"
     THEN ReturnText("partial", lastText, now)
     ELSE Throw("CaptureTimeout")
  /\ ev' = {}
  /\ UNCHANGED <<sideVars, opts, now, waitLeft, authed, acted, procVars, chalVars, capVars>>

\* ------------------------------------------------------------ 12. read aloud
TriggerReadAloud ==
  /\ pc = "readAloud"
  /\ \E ok \in BOOLEAN :
       IF ok
       THEN /\ pc' = "finally" /\ durationMs' = now
            /\ UNCHANGED <<answer, result, imageUrl, err>>
       ELSE Throw("ProtocolError")
  /\ ev' = {"readAloud"}
  /\ UNCHANGED <<sideVars, opts, now, waitLeft, authed, acted, procVars, chalVars, capVars>>

\* ---------------------------------------------------------------- teardown
\* The finally block.
Teardown ==
  /\ pc = "finally"
  /\ closed' = closeAttempted(opts, client)
  /\ killed' = killAttempted(opts, launcher, client)
  /\ pc' = "done"
  /\ ev' = {"teardown"}
  /\ UNCHANGED <<sideVars, opts, now, waitLeft, authed, acted, launcher, client, attempt,
                 chalVars, capVars, outVars>>

\* ----------------------------------------------------------- specifications
Next ==
  \/ ConnectRemoteCDP \/ LaunchChrome \/ ConnectCDP
  \/ EnableDomains \/ InjectStealth \/ ResolveCookies \/ Navigate
  \/ DetectRound \/ HandleCloudflare \/ HandleCaptcha \/ HandleLoginWall \/ Acknowledge
  \/ VerifyAuth \/ BeginManualLogin \/ ManualLoginPoll \/ ManualVerify \/ ManualLoginTimeout
  \/ FindInput \/ FindInputRetry \/ EnableThinkMode \/ EnableDeepSearch
  \/ PasteText \/ SubmitPrompt \/ CaptureGeneratedImage
  \/ PollResponse \/ PollError \/ AcknowledgeMidCapture \/ CaptureTimedOut
  \/ TriggerReadAloud \/ Teardown

Spec == Init /\ [][Next]_vars

\* The steps the engine takes by itself: every await but the console read of
\* promptUser is a CDP call or a timer, so the event loop always runs the next
\* one; pressing Enter is up to the human.
EngineStep ==
  \/ ConnectRemoteCDP \/ LaunchChrome \/ ConnectCDP
  \/ EnableDomains \/ InjectStealth \/ ResolveCookies \/ Navigate
  \/ DetectRound \/ HandleCloudflare \/ HandleCaptcha \/ HandleLoginWall
  \/ VerifyAuth \/ BeginManualLogin \/ ManualLoginPoll \/ ManualVerify \/ ManualLoginTimeout
  \/ FindInput \/ FindInputRetry \/ EnableThinkMode \/ EnableDeepSearch
  \/ PasteText \/ SubmitPrompt \/ CaptureGeneratedImage
  \/ PollResponse \/ PollError \/ CaptureTimedOut
  \/ TriggerReadAloud \/ Teardown

SpecFair == Spec /\ WF_vars(EngineStep)

\* A run with none of the mode flags: the toggles, image mode and Read Aloud
\* are not reached.
InitPlain ==
  /\ \E o \in GrokOptions(BrowserTimeouts, ResponseTimeouts) :
       /\ \A f \in ModeFlags : ~o[f]
       /\ InitState(o, "start")
  /\ SideIdle

NextPlain ==
  \/ ConnectRemoteCDP \/ LaunchChrome \/ ConnectCDP
  \/ EnableDomains \/ InjectStealth \/ ResolveCookies \/ Navigate
  \/ DetectRound \/ HandleCloudflare \/ HandleCaptcha \/ HandleLoginWall \/ Acknowledge
  \/ VerifyAuth \/ BeginManualLogin \/ ManualLoginPoll \/ ManualVerify \/ ManualLoginTimeout
  \/ FindInput \/ FindInputRetry \/ PasteText \/ SubmitPrompt
  \/ PollResponse \/ PollError \/ AcknowledgeMidCapture \/ CaptureTimedOut
  \/ Teardown

SpecPlainFair == InitPlain /\ [][NextPlain]_vars /\ WF_vars(EngineStep)

\* captureResponse on its own: the state of an attached run that has just
\* submitted, with the response timeouts that reach past the grace period.
InitCapture ==
  \E o \in GrokOptions({3000}, CaptureTimeouts) :
    /\ o.remoteChrome /\ ~o.keepBrowser /\ ~o.manualLogin
    /\ \A f \in ModeFlags \ {"readAloud"} : ~o[f]
    /\ opts = o
    /\ pc = "capture"
    /\ ctx = "none" /\ round = 0 /\ kind = "none" /\ page = BlankPage
    /\ sawLoginPage = FALSE /\ sawLoginOnly = FALSE /\ midChallenge = "none"
    /\ launcher = FALSE /\ client = TRUE /\ attempt = 0
    /\ closed = FALSE /\ killed = FALSE
    /\ now = MaxClock /\ waitLeft = 0
    /\ authed = "yes" /\ acted = {"find", "paste", "submit"} /\ ev = {"submit"}
    /\ capT = 0 /\ lastText = "" /\ stableCount = 0
    /\ lastSeen = "" /\ streak = 0 /\ calm = 0 /\ lastElapsed = 0
    /\ answer = "" /\ result = "none" /\ imageUrl = "unset"
    /\ err = "none" /\ durationMs = 0
    /\ SideIdle

NextCapture == PollResponse \/ PollError \/ AcknowledgeMidCapture \/ CaptureTimedOut

SpecCapture == InitCapture /\ [][NextCapture]_vars


\* ------------------------------------------------- the main command (grok.ts)
CliFlags == [copy : BOOLEAN, render : BOOLEAN, dryRun : BOOLEAN, writeOutput : BOOLEAN]

RunErrors ==
  {"TransportError", "LaunchError", "ProtocolError", "CookieError", "ChallengeUnresolved",
   "WaitTimeout", "LocatorNotFound", "DownloadError", "CaptureTimeout"}

\* What a call of runGrokBrowser ends in: a result, or a thrown error.
RunOutcomes ==
  {[result |-> r, err |-> "none"] : r \in {"answer", "partial", "image"}}
    \cup {[result |-> "none", err |-> e] : e \in RunErrors}

RunDurations == {1000, 5000}

DryRunReturnsUnlessCopy(c) == c.dryRun /\ ~c.copy

\* if (grokOpts.dryRun) return: before the session is created.
returnsBeforeSession(c) == c.dryRun

\* The main action up to the dry-run check: print the bundle on --render or
\* --dry-run, copy it on --copy or --dry-run (copyToClipboard swallows its
\* failure), return on --dry-run.
MainPreview ==
  /\ mainPc = "start"
  /\ printed' = IF cli.render \/ cli.dryRun THEN printed \cup {"bundle"} ELSE printed
  /\ IF cli.copy \/ cli.dryRun
     THEN \E ok \in BOOLEAN : clipboard' = IF ok THEN "bundle" ELSE clipboard
     ELSE UNCHANGED clipboard
  /\ mainPc' = IF returnsBeforeSession(cli) THEN "returned" ELSE "session"
  /\ UNCHANGED <<cli, sessionId, bundleSaved, sessionStatus, wasCompleted, outputFile,
                 browserCalls, exitCode>>
  /\ UNCHANGED <<besideMain, engineLocals, pc, outVars>>

\* generateSessionId, saveBundleText, saveSession with status 'running'.
MainCreateSession ==
  /\ mainPc = "session"
  /\ sessionId' = TRUE /\ bundleSaved' = TRUE /\ sessionStatus' = "running"
  /\ mainPc' = "browser"
  /\ UNCHANGED <<cli, wasCompleted, clipboard, printed, outputFile, browserCalls, exitCode>>
  /\ UNCHANGED <<besideMain, engineLocals, pc, outVars>>

\* await runGrokBrowser(...): the call as a whole, by what it ends in.
MainRunGrokBrowser ==
  /\ mainPc = "browser" /\ pc = "idle"
  /\ browserCalls' = browserCalls + 1
  /\ \E out \in RunOutcomes, d \in RunDurations :
       /\ result' = out.result /\ err' = out.err
       /\ answer' = IF out.result \in {"answer", "partial"} THEN TextA ELSE ""
       /\ durationMs' = IF out.err = "none" THEN d ELSE 0
       /\ mainPc' = IF out.err = "none" THEN "report" ELSE "catch"
  /\ pc' = "done"
  /\ UNCHANGED <<cli, sessionId, bundleSaved, sessionStatus, wasCompleted, clipboard, printed,
                 outputFile, exitCode>>
  /\ UNCHANGED <<besideMain, engineLocals, imageUrl>>

\* In the try block after the call: updateSession 'completed', printAnswer,
\* writeOutputFile, whose fs.writeFileSync may throw into the catch clause.
MainReportResult ==
  /\ mainPc = "report"
  /\ sessionStatus' = "completed" /\ wasCompleted' = TRUE
  /\ printed' = printed \cup {"answer"}
  /\ IF cli.writeOutput
     THEN \E ok \in BOOLEAN :
            /\ outputFile' = ok
            /\ mainPc' = IF ok THEN "copyAnswer" ELSE "catch"
     ELSE /\ mainPc' = "copyAnswer"
          /\ UNCHANGED outputFile
  /\ UNCHANGED <<cli, sessionId, bundleSaved, clipboard, browserCalls, exitCode>>
  /\ UNCHANGED <<besideMain, engineLocals, pc, outVars>>

\* if (grokOpts.copy) await copyToClipboard(result.answer); then the action returns.
MainCopyAnswer ==
  /\ mainPc = "copyAnswer"
  /\ IF cli.copy
     THEN \E ok \in BOOLEAN : clipboard' = IF ok THEN "answer" ELSE clipboard
     ELSE UNCHANGED clipboard
  /\ mainPc' = "returned"
  /\ UNCHANGED <<cli, sessionId, bundleSaved, sessionStatus, wasCompleted, printed, outputFile,
                 browserCalls, exitCode>>
  /\ UNCHANGED <<besideMain, engineLocals, pc, outVars>>

\* The catch clause: updateSession 'failed', the error message, process.exit(1).
MainReportFailure ==
  /\ mainPc = "catch"
  /\ sessionStatus' = "failed"
  /\ printed' = printed \cup {"error"}
  /\ exitCode' = 1
  /\ mainPc' = "exited"
  /\ UNCHANGED <<cli, sessionId, bundleSaved, wasCompleted, clipboard, outputFile,
                 browserCalls>>
  /\ UNCHANGED <<besideMain, engineLocals, pc, outVars>>

InitMain ==
  /\ NoSessions
  /\ NoStorePaths
  /\ NoChannel
  /\ NoSubmit
  /\ NoLocate
  /\ \E o \in GrokOptions({3000}, ResponseTimeouts) :
       /\ \A f \in Flags : ~o[f]
       /\ InitState(o, "idle")
  /\ \E c \in CliFlags : MainIdle(c, "start")
  /\ CookiesIdle(NoSources, "none")
  /\ NoRead /\ NoToggles /\ NoDetect

NextMain ==
  \/ MainPreview \/ MainCreateSession \/ MainRunGrokBrowser
  \/ MainReportResult \/ MainCopyAnswer \/ MainReportFailure

SpecMain == InitMain /\ [][NextMain]_vars

\* --------------------------------------------- resolveCookies, step by step
SourceContents == {"unset", "bad", "empty", "set"}
CookieSources == [{"inline", "file", "auto", "store"} -> SourceContents]

\* The source consulted at a position of resolveCookies, and the next position.
SourceAt(at) == CHOOSE i \in 1..Len(SourceNames) : SourceNames[i] = at
NextSource(at) ==
  IF SourceAt(at) < Len(SourceNames) THEN SourceNames[SourceAt(at) + 1] ELSE "set"

ResolveStepFallsThrough(s, content, o) ==
  IF s \in {"inline", "file"}
  THEN IF content = "unset" THEN "skip" ELSE IF content = "bad" THEN "throw" ELSE "next"
  ELSE IF s = "auto"
  THEN IF content = "bad" THEN "throw" ELSE "next"
  ELSE IF o.manualLogin \/ o.remoteChrome THEN "skip" ELSE "next"

\* What resolveCookies does at source s: "skip" it unconsulted, "throw",
\* "return" what it holds, or go on to the "next" source.
\*  - inline data and inline file: used whenever the option is given; a payload
\*    that does not parse (or a file that cannot be read) throws;
\*  - the auto-discovered file: returned only when it holds cookies;
\*  - the browser store: not read in manual-login or attach mode; a read error
\*    is caught; returned only when it holds cookies.
resolveStep(s, content, o) ==
  IF s \in {"inline", "file"}
  THEN IF content = "unset" THEN "skip" ELSE IF content = "bad" THEN "throw" ELSE "return"
  ELSE IF s = "auto"
  THEN IF content = "set" THEN "return" ELSE IF content = "bad" THEN "throw" ELSE "next"
  ELSE IF o.manualLogin \/ o.remoteChrome THEN "skip"
  ELSE IF content = "set" THEN "return" ELSE "next"

\* One source of resolveCookies.
ResolveFrom(s) ==
  /\ pc = "cookies" /\ ckPc = s
  /\ LET step == resolveStep(s, sources[s], opts)
     IN /\ consulted' = IF step = "skip" THEN consulted ELSE Append(consulted, s)
        /\ cookies' = IF sources[s] = "set" /\ step \in {"return", "next"}
                      THEN cookies \cup {s} ELSE cookies
        /\ IF step = "throw"
           THEN /\ Throw("CookieError")
                /\ ckPc' = "done"
           ELSE /\ ckPc' = IF step = "return" THEN "set" ELSE NextSource(s)
                /\ UNCHANGED <<pc, outVars>>
  /\ resolutions' = IF s = SourceNames[1] THEN resolutions + 1 ELSE resolutions
  /\ UNCHANGED <<sources, besideCk, engineLocals>>

ResolveInline == ResolveFrom("inline")
ResolveInlineFile == ResolveFrom("file")
ResolveAuto == ResolveFrom("auto")
ResolveStore == ResolveFrom("store")

\* if (cookies.length > 0) await setCookies(...): a cookie the browser refuses
\* is skipped; then the engine navigates.
SetCookies ==
  /\ pc = "cookies" /\ ckPc = "set"
  /\ ckPc' = "done"
  /\ pc' = "navigate"
  /\ UNCHANGED <<sources, consulted, cookies, resolutions, besideCk, engineLocals, outVars>>

\* runGrokBrowser about to resolve its cookies, for every content of the sources.
InitCookies ==
  /\ NoSessions
  /\ NoStorePaths
  /\ NoChannel
  /\ NoSubmit
  /\ NoLocate
  /\ \E o \in GrokOptions({3000}, ResponseTimeouts) :
       /\ \A f \in Flags \ {"manualLogin", "remoteChrome"} : ~o[f]
       /\ opts = o
       /\ launcher = ~o.remoteChrome
  /\ pc = "cookies"
  /\ ctx = "none" /\ round = 0 /\ kind = "none" /\ page = BlankPage
  /\ sawLoginPage = FALSE /\ sawLoginOnly = FALSE /\ midChallenge = "none"
  /\ client = TRUE /\ attempt = 0
  /\ closed = FALSE /\ killed = FALSE
  /\ now = 0 /\ waitLeft = 0
  /\ authed = "unchecked" /\ acted = {} /\ ev = {"stealth"}
  /\ capT = 0 /\ lastText = "" /\ stableCount = 0
  /\ lastSeen = "" /\ streak = 0 /\ calm = 0 /\ lastElapsed = 0
  /\ answer = "" /\ result = "none" /\ imageUrl = "unset"
  /\ err = "none" /\ durationMs = 0
  /\ MainIdle(NoFlags, "none")
  /\ \E so \in CookieSources : CookiesIdle(so, SourceNames[1])
  /\ NoRead /\ NoToggles /\ NoDetect

NextCookies ==
  \/ ResolveInline \/ ResolveInlineFile \/ ResolveAuto \/ ResolveStore \/ SetCookies
  \/ Navigate \/ Teardown

SpecCookies == InitCookies /\ [][NextCookies]_vars

\* ------------------------------------------------ readChromeCookies (cookies.ts)
\* An encrypted_value: its first bytes and what follows them.
NoEnc == [prefix |-> "", body |-> "none"]
ShortEnc == [prefix |-> "v1", body |-> "none"]
EncPrefixes == {"v10", "v11", "v12"}
\* good: a ciphertext of a value under the key; blank: of the empty value;
\* malformed: not a whole number of blocks; otherKey: made under another key.
EncBodies == {"good", "blank", "malformed", "otherKey"}
EncValues == {NoEnc, ShortEnc} \cup [prefix : EncPrefixes, body : EncBodies]
BlockLen == 16
EncLen(e) == Len(e.prefix) + (IF e.body = "none" THEN 0 ELSE BlockLen)

PlainValue == "abc"
SecretValue == "secret"
CookieRows == [plain : {"", PlainValue}, enc : EncValues]
RECURSIVE RowSets(_)
RowSets(n) ==
  IF n = 0 THEN {{}}
  ELSE RowSets(n - 1) \cup {rs \cup {r} : rs \in RowSets(n - 1), r \in CookieRows}
DbStates == {"missing", "noTemp", "locked", "noDriver", "badSchema", "ok"}

Null == [null |-> TRUE, text |-> ""]

\* decipher.update + decipher.final with auto padding: throws on a bad
\* final block.
Decipher(body) ==
  IF body = "good" THEN [threw |-> FALSE, text |-> SecretValue]
  ELSE IF body = "blank" THEN [threw |-> FALSE, text |-> ""]
  ELSE [threw |-> TRUE, text |-> ""]

DecryptIgnoresPrefix(e, key) ==
  IF EncLen(e) < 3 THEN Null
  ELSE IF Decipher(e.body).threw THEN Null
  ELSE [null |-> FALSE, text |-> Decipher(e.body).text]

decryptChromeValue(e, key) ==
  IF EncLen(e) < 3 THEN Null
  ELSE IF e.prefix # "v10" /\ e.prefix # "v11" THEN Null
  ELSE IF Decipher(e.body).threw THEN Null
  ELSE [null |-> FALSE, text |-> Decipher(e.body).text]

\* One iteration of the row loop: the value the cookie gets, or skip.
readRow(r, key) ==
  LET tryDecrypt == r.plain = "" /\ EncLen(r.enc) > 0
      d == IF tryDecrypt /\ key THEN decryptChromeValue(r.enc, key) ELSE Null
      value == IF ~d.null /\ d.text # "" THEN d.text ELSE r.plain
  IN [skip |-> tryDecrypt /\ value = "", value |-> value]

\* existsSync, mkdtempSync, copyFileSync: a failed copy removes the directory.
ReadCopyDatabase ==
  /\ rdPc = "start"
  /\ IF dbState \in {"missing", "noTemp"}
     THEN /\ rdPc' = "returned" /\ rdResult' = "null"
          /\ UNCHANGED <<tmpDir, tmpDb>>
     ELSE IF dbState = "locked"
     THEN /\ rdPc' = "returned" /\ rdResult' = "null"
          /\ tmpDir' = "removed"
          /\ UNCHANGED tmpDb
     ELSE /\ rdPc' = "open"
          /\ tmpDir' = "present" /\ tmpDb' = TRUE
          /\ UNCHANGED rdResult
  /\ UNCHANGED <<dbState, rows, macKey, dbOpen, rdCookies>>
  /\ UNCHANGED <<besideRd, engineLocals, pc, outVars>>

\* import('better-sqlite3') and new Database: on failure unlinkSync(tmpCookies).
ReadOpenDatabase ==
  /\ rdPc = "open"
  /\ IF dbState = "noDriver"
     THEN /\ tmpDb' = FALSE
          /\ rdPc' = "returned" /\ rdResult' = "null"
          /\ UNCHANGED dbOpen
     ELSE /\ dbOpen' = TRUE
          /\ rdPc' = "rows"
          /\ UNCHANGED <<tmpDb, rdResult>>
  /\ UNCHANGED <<dbState, rows, macKey, tmpDir, rdCookies>>
  /\ UNCHANGED <<besideRd, engineLocals, pc, outVars>>

\* The query and the row loop, then the finally block: db.close and rmSync of
\* the temporary directory.
ReadRows ==
  /\ rdPc = "rows"
  /\ IF dbState = "badSchema"
     THEN /\ rdPc' = "threw" /\ rdResult' = "threw"
          /\ UNCHANGED rdCookies
     ELSE /\ rdPc' = "returned" /\ rdResult' = "cookies"
          /\ rdCookies' = {[row |-> r, value |-> readRow(r, macKey).value] :
                             r \in {q \in rows : ~readRow(q, macKey).skip}}
  /\ dbOpen' = FALSE
  /\ tmpDir' = "removed" /\ tmpDb' = FALSE
  /\ UNCHANGED <<dbState, rows, macKey>>
  /\ UNCHANGED <<besideRd, engineLocals, pc, outVars>>

InitRead ==
  /\ NoSessions
  /\ NoStorePaths
  /\ NoChannel
  /\ NoSubmit
  /\ NoLocate
  /\ \E o \in GrokOptions({3000}, ResponseTimeouts) :
       /\ \A f \in Flags : ~o[f]
       /\ InitState(o, "idle")
  /\ MainIdle(NoFlags, "none")
  /\ CookiesIdle(NoSources, "none")
  /\ NoToggles /\ NoDetect
  /\ \E db \in DbStates, rs \in RowSets(MaxRows), key \in BOOLEAN :
       ReadIdle(db, rs, key, "start")

NextRead == ReadCopyDatabase \/ ReadOpenDatabase \/ ReadRows

SpecRead == InitRead /\ [][NextRead]_vars

\* ------------------------------------------- the mode toggles, called repeatedly
ControlStates == {"absent", "inactive", "active"}

ToggleAlwaysClicks(control) ==
  [found |-> control # "absent", click |-> control # "absent"]

\* The in-page script of enableThinkMode / enableDeepSearch on the first
\* control that matches: it is clicked only when it is not marked active.
toggle(control) ==
  [found |-> control # "absent", click |-> control = "inactive"]

\* What a click makes of the control, on a page where clicks work or not.
Clicked(control, works) ==
  IF ~works THEN control
  ELSE IF control = "inactive" THEN "active"
  ELSE IF control = "active" THEN "inactive"
  ELSE control

\* One call of the toggle of mode m that returns.
Toggle(m) ==
  /\ pc = "idle"
  /\ toggleCalls[m] < MaxToggleCalls
  /\ toggleCalls' = [toggleCalls EXCEPT ![m] = @ + 1]
  /\ clicks' = [clicks EXCEPT ![m] = IF toggle(controls[m]).click THEN @ + 1 ELSE @]
  /\ controls' = [controls EXCEPT ![m] = IF toggle(controls[m]).click
                                         THEN Clicked(@, clickWorks) ELSE @]
  /\ UNCHANGED <<controls0, clickWorks>>
  /\ UNCHANGED <<besideTg, engineLocals, pc, outVars>>

ToggleThinkMode == Toggle("think")
ToggleDeepSearch == Toggle("deepSearch")

InitToggle ==
  /\ NoSessions
  /\ NoStorePaths
  /\ NoChannel
  /\ NoSubmit
  /\ NoLocate
  /\ \E o \in GrokOptions({3000}, ResponseTimeouts) :
       /\ \A f \in Flags : ~o[f]
       /\ InitState(o, "idle")
  /\ MainIdle(NoFlags, "none")
  /\ CookiesIdle(NoSources, "none")
  /\ NoRead /\ NoDetect
  /\ \E cs \in [Modes -> ControlStates], works \in BOOLEAN : TogglesIdle(cs, works)

NextToggle == ToggleThinkMode \/ ToggleDeepSearch

SpecToggle == InitToggle /\ [][NextToggle]_vars

\* ------------------------------- detectChallenge, evaluated again and again
\* One evaluation of detectChallenge on the page as it is: by a round of
\* checkAndHandleChallenges when nothing is being handled, by a poll of
\* waitForChallengeGone while a Cloudflare kind is, which clears it once the
\* value differs.
EvaluateDetect ==
  /\ pc = "idle"
  /\ Len(detections) < MaxDetections
  /\ handleChallenge(kind) # "prompt" /\ kind # "login-wall"
  /\ LET current == detectChallenge(dom)
     IN /\ detections' = Append(detections, [page |-> dom, value |-> current])
        /\ kind' = IF kind = "none" THEN current
                   ELSE IF current = "none" \/ current # kind THEN "none"
                   ELSE kind
  /\ UNCHANGED <<dom, otherDom, polled, besideDt>>
  /\ UNCHANGED <<opts, pc, now, waitLeft, authed, acted, ev, procVars, ctx, round, page,
                 seenVars, capVars, outVars>>

\* The human acknowledged the captcha being handled.
CaptchaHandled ==
  /\ pc = "idle"
  /\ handleChallenge(kind) = "prompt"
  /\ kind' = "none"
  /\ UNCHANGED <<dtVars, besideDt>>
  /\ UNCHANGED <<opts, pc, now, waitLeft, authed, acted, ev, procVars, ctx, round, page,
                 seenVars, capVars, outVars>>

\* The page moves on between two evaluations, or moves back.
PageChanges ==
  /\ pc = "idle"
  /\ dom' = otherDom /\ otherDom' = dom
  /\ UNCHANGED <<detections, polled, besideDt>>
  /\ UNCHANGED <<engineLocals, pc, outVars>>

\* Every page state detectChallenge tells apart, and the failed evaluation.
DomStates == [url : Urls, markers : SUBSET Markers, ok : {TRUE}] \cup {EvalError}

InitDetect ==
  /\ \E o \in GrokOptions({3000}, ResponseTimeouts) :
       /\ \A f \in Flags : ~o[f]
       /\ InitState(o, "idle")
  /\ OthersIdle
  /\ \E p \in DomStates, q \in DomStates : p # q /\ DetectIdle(p, q)

NextDetect == EvaluateDetect \/ CaptchaHandled \/ PageChanges

SpecDetect == InitDetect /\ [][NextDetect]_vars

\* ---------------------- checkAndHandleChallenges, with the self-clearance
\* ---------------------- wait of handleChallenge taken poll by poll
GoneOnlyWhenNone(current, k) == current = "none"

\* The test of waitForChallengeGone on what a re-detection returned.
challengeGone(current, k) == current = "none" \/ current # k

\* handleChallenge for the Cloudflare kinds calls waitForChallengeGone, which
\* sets its deadline.
WaitBegin ==
  /\ pc = "handle" /\ handleChallenge(kind) = "poll"
  /\ pc' = "gone"
  /\ waitLeft' = ChallengeGoneTimeoutMs
  /\ polled' = <<>>
  /\ ev' = {}
  /\ UNCHANGED <<dom, otherDom, detections, besideDt>>
  /\ UNCHANGED <<opts, now, authed, acted, procVars, chalVars, capVars, outVars>>

\* One iteration before the deadline: sleep(1000), detect, return true when
\* the challenge is gone; handleChallenge then returns to its caller.
WaitPoll ==
  /\ pc = "gone" /\ waitLeft > 0
  /\ \E lat \in Latencies, current \in {detectChallenge(q) : q \in Snapshots} :
       /\ IF challengeGone(current, kind)
          THEN /\ polled' = <<current>>
               /\ pc' = AfterHandle(ctx, round).pc
               /\ round' = AfterHandle(ctx, round).round
               /\ ctx' = AfterHandle(ctx, round).ctx
               /\ now' = Min(now + ChallengeGonePollMs + lat + AfterHandle(ctx, round).d, MaxClock)
               /\ waitLeft' = 0
               /\ kind' = "none" /\ page' = BlankPage
          ELSE /\ polled' = Append(polled, current)
               /\ pc' = pc
               /\ Elapse(ChallengeGonePollMs + lat)
               /\ UNCHANGED <<ctx, round, kind, page>>
  /\ ev' = {"detect"}
  /\ UNCHANGED <<dom, otherDom, detections, besideDt>>
  /\ UNCHANGED <<opts, authed, acted, procVars, seenVars, capVars, outVars>>

\* The deadline passed: waitForChallengeGone returns false and handleChallenge
\* suspends at the console prompt.
WaitExpired ==
  /\ pc = "gone" /\ waitLeft = 0
  /\ pc' = "prompt"
  /\ ev' = {}
  /\ UNCHANGED <<dtVars, besideDt>>
  /\ UNCHANGED <<opts, now, waitLeft, authed, acted, procVars, chalVars, capVars, outVars>>

\* The state of a run that has navigated and calls checkAndHandleChallenges.
InitChallenges ==
  /\ \E o \in GrokOptions({3000}, ResponseTimeouts) :
       /\ \A f \in Flags \ {"headless", "remoteChrome"} : ~o[f]
       /\ opts = o
       /\ launcher = ~o.remoteChrome
       /\ now = PostNavigateSleepMs + (IF o.remoteChrome THEN 0 ELSE LaunchSettleMs)
  /\ pc = "detect"
  /\ ctx = "initial" /\ round = 0 /\ kind = "none" /\ page = BlankPage
  /\ sawLoginPage = FALSE /\ sawLoginOnly = FALSE /\ midChallenge = "none"
  /\ client = TRUE /\ attempt = 0
  /\ closed = FALSE /\ killed = FALSE
  /\ waitLeft = 0
  /\ authed = "unchecked" /\ acted = {} /\ ev = {"navigate"}
  /\ capT = 0 /\ lastText = "" /\ stableCount = 0
  /\ lastSeen = "" /\ streak = 0 /\ calm = 0 /\ lastElapsed = 0
  /\ answer = "" /\ result = "none" /\ imageUrl = "unset"
  /\ err = "none" /\ durationMs = 0
  /\ SideIdle

NextChallenges ==
  \/ DetectRound \/ WaitBegin \/ WaitPoll \/ WaitExpired
  \/ HandleCaptcha \/ HandleLoginWall \/ Acknowledge

SpecChallenges == InitChallenges /\ [][NextChallenges]_vars

\* ------------------- findElement and the toggle script, over a selector list
MaxSelectors == 3

\* What the page holds for one selector of the list: no element ("miss"), a
\* query whose evaluation throws ("error"), a control that is not marked
\* active, one that is, or an element that is not marked active and has no
\* click method ("unclickable": an SVG element, say).
SelectorStates == {"miss", "error", "inactive", "active", "unclickable"}

\* document.querySelector(sel) !== null
Present(c) == c \in {"inactive", "active", "unclickable"}

RECURSIVE FindStopsAtErrorFrom(_, _)
FindStopsAtErrorFrom(sels, i) ==
  IF i > Len(sels) \/ sels[i] = "error" THEN 0
  ELSE IF Present(sels[i]) THEN i
  ELSE FindStopsAtErrorFrom(sels, i + 1)

FindStopsAtError(sels) == FindStopsAtErrorFrom(sels, 1)

RECURSIVE findFrom(_, _)
findFrom(sels, i) ==
  IF i > Len(sels) THEN 0
  ELSE IF Present(sels[i]) THEN i
  ELSE findFrom(sels, i + 1)

\* findElement: the position of the selector it returns, 0 for null.  A
\* selector whose Runtime.evaluate throws is passed over like a miss.
findElement(sels) == findFrom(sels, 1)

\* The control the toggle script inspects when a selector yields an element.
ControlOf(c) == IF c = "unclickable" THEN "inactive" ELSE c

RECURSIVE ToggleClicksEveryMatchFrom(_, _)
ToggleClicksEveryMatchFrom(sels, i) ==
  IF i > Len(sels) THEN [returned |-> 0, clicked |-> {}]
  ELSE LET rest == ToggleClicksEveryMatchFrom(sels, i + 1)
       IN IF sels[i] \in {"inactive", "active"}
          THEN [returned |-> i,
                clicked |-> rest.clicked \cup (IF toggle(sels[i]).click THEN {i} ELSE {})]
          ELSE rest

ToggleClicksEveryMatch(sels) == ToggleClicksEveryMatchFrom(sels, 1)

RECURSIVE toggleFrom(_, _)
toggleFrom(sels, i) ==
  IF i > Len(sels) THEN [returned |-> 0, clicked |-> {}]
  ELSE IF ~Present(sels[i]) THEN toggleFrom(sels, i + 1)
  ELSE IF ~toggle(ControlOf(sels[i])).click THEN [returned |-> i, clicked |-> {}]
  ELSE IF sels[i] = "unclickable" THEN toggleFrom(sels, i + 1)
  ELSE [returned |-> i, clicked |-> {i}]

\* The in-page script of enableThinkMode / enableDeepSearch over its selector
\* list: each selector is handled inside try/catch, so a query or a click
\* that throws moves the scan to the next selector; the script returns at the
\* first selector it handled without throwing.
toggleScript(sels) == toggleFrom(sels, 1)

\* One call of findElement on the list.
FindElement ==
  /\ pc = "idle"
  /\ located = -1
  /\ located' = findElement(selectors)
  /\ UNCHANGED <<selectors, toggled>>
  /\ UNCHANGED <<besideLc, engineLocals, pc, outVars>>

\* One evaluation of the toggle script on the list.
ToggleScript ==
  /\ pc = "idle"
  /\ toggled = NotToggled
  /\ toggled' = toggleScript(selectors)
  /\ UNCHANGED <<selectors, located>>
  /\ UNCHANGED <<besideLc, engineLocals, pc, outVars>>

RECURSIVE SelectorLists(_)
SelectorLists(n) ==
  IF n = 0 THEN {<<>>}
  ELSE LET shorter == SelectorLists(n - 1)
       IN shorter \cup {Append(l, c) : l \in {x \in shorter : Len(x) = n - 1},
                                       c \in SelectorStates}

InitLocate ==
  /\ NoSessions
  /\ NoStorePaths
  /\ NoChannel
  /\ \E o \in GrokOptions({3000}, ResponseTimeouts) :
       /\ \A f \in Flags : ~o[f]
       /\ InitState(o, "idle")
  /\ MainIdle(NoFlags, "none")
  /\ CookiesIdle(NoSources, "none")
  /\ NoRead /\ NoToggles /\ NoDetect /\ NoSubmit
  /\ \E sels \in SelectorLists(MaxSelectors) : LocateIdle(sels)

NextLocate == FindElement \/ ToggleScript

SpecLocate == InitLocate /\ [][NextLocate]_vars

\* ------------------------------------------- submitPrompt, request by request
ButtonStates == {"absent", "disabled", "enabled"}

\* What clickElement's expression does on the page as it is when it runs:
\* document.querySelector(sel)?.click() clicks whatever the selector yields
\* now, and nothing when the element is gone.
clickElement(b) == IF b = "absent" THEN <<>> ELSE <<"click">>

\* catch of submitPrompt: whatever was thrown in the try block, by waitFor or
\* by clickElement, leads to the Enter fallback.
SubmitCaught ==
  /\ pc' = "submitFocus"
  /\ UNCHANGED outVars

\* One poll of the waitFor of submitPrompt: the first selector whose control
\* is enabled ends the wait; otherwise the poll sleeps and the page may
\* change.  An evaluation that throws rejects the waitFor.
SubmitPoll ==
  /\ pc = "submitWait"
  /\ waitLeft > 0
  /\ \/ /\ button = "enabled"
        /\ pc' = "submitClick"
        /\ UNCHANGED <<button, now, waitLeft, outVars>>
     \/ /\ button # "enabled"
        /\ pc' = pc
        /\ \E lat \in Latencies : Elapse(SubmitPollMs + lat)
        /\ button' \in ButtonStates
        /\ UNCHANGED outVars
     \/ /\ SubmitCaught
        /\ UNCHANGED <<button, now, waitLeft>>
  /\ UNCHANGED <<sent, besideSb>>
  /\ UNCHANGED <<opts, authed, acted, ev, procVars, chalVars, capVars>>

\* The deadline of the waitFor passed: it throws.
SubmitWaitExpired ==
  /\ pc = "submitWait"
  /\ waitLeft = 0
  /\ SubmitCaught
  /\ UNCHANGED <<sbVars, besideSb>>
  /\ UNCHANGED engineLocals

\* clickElement on the selector that was found, on the page as it is by then.
\* When Runtime.evaluate rejects, the expression may or may not have run.
SubmitClick ==
  /\ pc = "submitClick"
  /\ \E b \in ButtonStates :
       /\ button' = b
       /\ \/ /\ sent' = sent \o clickElement(b)
             /\ pc' = "submitted"
             /\ UNCHANGED outVars
          \/ /\ sent' \in {sent, sent \o clickElement(b)}
             /\ SubmitCaught
  /\ UNCHANGED besideSb
  /\ UNCHANGED engineLocals

\* The fallback focuses the input; a CDP error propagates from here on.
SubmitFocus ==
  /\ pc = "submitFocus"
  /\ \/ /\ pc' = "submitKeyDown" /\ UNCHANGED outVars
     \/ Throw("ProtocolError")
  /\ UNCHANGED <<sbVars, besideSb>>
  /\ UNCHANGED engineLocals

SubmitKeyDown ==
  /\ pc = "submitKeyDown"
  /\ \/ /\ sent' = Append(sent, "keyDown")
        /\ pc' = "submitKeyUp" /\ UNCHANGED outVars
     \/ /\ Throw("ProtocolError") /\ UNCHANGED sent
  /\ UNCHANGED <<button, besideSb>>
  /\ UNCHANGED engineLocals

SubmitKeyUp ==
  /\ pc = "submitKeyUp"
  /\ \/ /\ sent' = Append(sent, "keyUp")
        /\ pc' = "submitted" /\ UNCHANGED outVars
     \/ /\ Throw("ProtocolError") /\ UNCHANGED sent
  /\ UNCHANGED <<button, besideSb>>
  /\ UNCHANGED engineLocals

\* submitPrompt on its own: the state of an attached run that has just
\* inserted the prompt, at the head of the waitFor.
InitSubmit ==
  /\ NoSessions
  /\ NoStorePaths
  /\ NoChannel
  /\ \E o \in GrokOptions({3000}, ResponseTimeouts) :
       /\ o.remoteChrome
       /\ \A f \in Flags \ {"remoteChrome"} : ~o[f]
       /\ opts = o
  /\ pc = "submitWait"
  /\ ctx = "none" /\ round = 0 /\ kind = "none" /\ page = BlankPage
  /\ sawLoginPage = FALSE /\ sawLoginOnly = FALSE /\ midChallenge = "none"
  /\ launcher = FALSE /\ client = TRUE /\ attempt = 0
  /\ closed = FALSE /\ killed = FALSE
  /\ now = MaxClock /\ waitLeft = SubmitWaitMs
  /\ authed = "yes" /\ acted = {"find", "paste"} /\ ev = {"paste"}
  /\ capT = 0 /\ lastText = "" /\ stableCount = 0
  /\ lastSeen = "" /\ streak = 0 /\ calm = 0 /\ lastElapsed = 0
  /\ answer = "" /\ result = "none" /\ imageUrl = "unset"
  /\ err = "none" /\ durationMs = 0
  /\ MainIdle(NoFlags, "none")
  /\ CookiesIdle(NoSources, "none")
  /\ NoRead /\ NoToggles /\ NoDetect /\ NoLocate
  /\ \E b \in ButtonStates : SubmitIdle(b)

NextSubmit ==
  \/ SubmitPoll \/ SubmitWaitExpired \/ SubmitClick
  \/ SubmitFocus \/ SubmitKeyDown \/ SubmitKeyUp

SpecSubmit == InitSubmit /\ [][NextSubmit]_vars

\* ------------- the store reads of resolveCookies and triggerReadAloud, await
\* ------------- by await
ReadAloudTimeoutMs == 20000
ReadAloudPollMs == 400

ReadEnds == {"null", "cookies", "threw"}

\* Promise.all evaluates its array in order: the call for grok.com starts
\* first, runs to its first await or to an early return, and only then the
\* call for x.com starts.
MayBegin(d) == reads[d] = "idle" /\ (d = "x.com" => reads["grok.com"] # "idle")

\* The part of readChromeCookies before its await: the existence check, the
\* temporary directory and the copy; each failure returns null at once.
StoreReadBegin ==
  /\ pc = "store"
  /\ \E d \in Domains :
       /\ MayBegin(d)
       /\ \E to \in {"null", "importing"} : reads' = [reads EXCEPT ![d] = to]
  /\ UNCHANGED <<outstanding, listening, capturedAudioUrl, besideCh>>
  /\ UNCHANGED <<engineLocals, pc, outVars>>

\* A call resumes when its import settles, which is after both calls were
\* started, and runs to its end: open, query, decrypt, clean up.
StoreReadResume ==
  /\ pc = "store"
  /\ \A d \in Domains : reads[d] # "idle"
  /\ \E d \in Domains :
       /\ reads[d] = "importing"
       /\ \E to \in ReadEnds : reads' = [reads EXCEPT ![d] = to]
  /\ UNCHANGED <<outstanding, listening, capturedAudioUrl, besideCh>>
  /\ UNCHANGED <<engineLocals, pc, outVars>>

\* Promise.all settles: resolveCookies returns what was read, or nothing when
\* a call threw or no cookie was found.
StoreReadsJoined ==
  /\ pc = "store"
  /\ \A d \in Domains : reads[d] \in ReadEnds
  /\ pc' = "stored"
  /\ UNCHANGED <<chVars, besideCh>>
  /\ UNCHANGED <<engineLocals, outVars>>

\* triggerReadAloud registers its callback and asks for the Media domain.
ReadAloudListen ==
  /\ pc = "readAloudStart"
  /\ listening' = TRUE
  /\ outstanding' = outstanding + 1
  /\ pc' = "mediaEnable"
  /\ UNCHANGED <<reads, capturedAudioUrl, besideCh>>
  /\ UNCHANGED <<engineLocals, outVars>>

\* The reply to Media.enable (an error is ignored); the click script is sent.
ReadAloudClick ==
  /\ pc = "mediaEnable"
  /\ outstanding' = (outstanding - 1) + 1
  /\ pc' = "clickScript"
  /\ UNCHANGED <<reads, listening, capturedAudioUrl, besideCh>>
  /\ UNCHANGED <<engineLocals, outVars>>

\* The reply to the click script: no button returns, a click starts the wait
\* for audio, a CDP error propagates.
ReadAloudClicked ==
  /\ pc = "clickScript"
  /\ outstanding' = outstanding - 1
  /\ \/ /\ pc' = "readAloudEnd" /\ UNCHANGED <<outVars, waitLeft>>
     \/ /\ pc' = "audioSleep" /\ waitLeft' = ReadAloudTimeoutMs /\ UNCHANGED outVars
     \/ /\ Throw("ProtocolError") /\ UNCHANGED waitLeft
  /\ UNCHANGED <<reads, listening, capturedAudioUrl, besideCh>>
  /\ UNCHANGED <<opts, now, authed, acted, ev, procVars, chalVars, capVars>>

\* The loop head and sleep(400) of the wait for audio: it ends at the
\* deadline or when the callback has stored a URL; else the audio poll is sent.
ReadAloudWake ==
  /\ pc = "audioSleep"
  /\ IF waitLeft = 0
     THEN /\ pc' = "readAloudEnd"
          /\ UNCHANGED <<outstanding, now, waitLeft>>
     ELSE /\ \E lat \in Latencies : Elapse(ReadAloudPollMs + lat)
          /\ IF capturedAudioUrl
             THEN pc' = "readAloudEnd" /\ UNCHANGED outstanding
             ELSE pc' = "audioPoll" /\ outstanding' = outstanding + 1
  /\ UNCHANGED <<reads, listening, capturedAudioUrl, besideCh>>
  /\ UNCHANGED <<opts, authed, acted, ev, procVars, chalVars, capVars, outVars>>

\* The reply to the audio poll: audio found, nothing yet, or a CDP error.
ReadAloudPolled ==
  /\ pc = "audioPoll"
  /\ outstanding' = outstanding - 1
  /\ \/ /\ pc' \in {"readAloudEnd", "audioSleep"} /\ UNCHANGED outVars
     \/ Throw("ProtocolError")
  /\ UNCHANGED <<reads, listening, capturedAudioUrl, besideCh>>
  /\ UNCHANGED engineLocals

\* The browser reports a request that the callback takes for the audio: it
\* runs whenever triggerReadAloud is suspended at an await, or later.
RequestWillBeSent ==
  /\ listening /\ ~capturedAudioUrl
  /\ capturedAudioUrl' = TRUE
  /\ UNCHANGED <<reads, outstanding, listening, besideCh>>
  /\ UNCHANGED <<engineLocals, pc, outVars>>

\* A launched run at the store branch of resolveCookies, or with its answer
\* at the call of triggerReadAloud.
InitChannel ==
  /\ NoSessions
  /\ NoStorePaths
  /\ \E o \in GrokOptions({3000}, ResponseTimeouts), at \in {"store", "readAloudStart"} :
       /\ \A f \in Flags \ {"readAloud", "keepBrowser"} : ~o[f]
       /\ o.readAloud = (at = "readAloudStart")
       /\ opts = o
       /\ pc = at
       /\ authed = (IF at = "store" THEN "unchecked" ELSE "yes")
       /\ acted = (IF at = "store" THEN {} ELSE {"find", "paste", "submit"})
       /\ ev = (IF at = "store" THEN {"stealth"} ELSE {"poll"})
       /\ answer = (IF at = "store" THEN "" ELSE TextA)
       /\ result = (IF at = "store" THEN "none" ELSE "answer")
  /\ ctx = "none" /\ round = 0 /\ kind = "none" /\ page = BlankPage
  /\ sawLoginPage = FALSE /\ sawLoginOnly = FALSE /\ midChallenge = "none"
  /\ launcher = TRUE /\ client = TRUE /\ attempt = 0
  /\ closed = FALSE /\ killed = FALSE
  /\ now = MaxClock /\ waitLeft = 0
  /\ capT = 0 /\ lastText = "" /\ stableCount = 0
  /\ lastSeen = "" /\ streak = 0 /\ calm = 0 /\ lastElapsed = 0
  /\ imageUrl = "unset" /\ err = "none" /\ durationMs = 0
  /\ MainIdle(NoFlags, "none")
  /\ CookiesIdle(NoSources, "none")
  /\ NoRead /\ NoToggles /\ NoDetect /\ NoLocate /\ NoSubmit
  /\ NoChannel

NextChannel ==
  \/ StoreReadBegin \/ StoreReadResume \/ StoreReadsJoined
  \/ ReadAloudListen \/ ReadAloudClick \/ ReadAloudClicked
  \/ ReadAloudWake \/ ReadAloudPolled \/ RequestWillBeSent

SpecChannel == InitChannel /\ [][NextChannel]_vars

\* ------------------------- the store branch of resolveCookies, path by path
MaxPaths == 3

\* What is at a candidate path: no file, a store without cookies for the two
\* domains, a store whose read throws, a store with cookies.
PathStates == {"missing", "empty", "failing", "cookies"}

RECURSIVE TriesNextPathFrom(_, _)
TriesNextPathFrom(paths, i) ==
  IF i > Len(paths) THEN [read |-> {}, found |-> FALSE]
  ELSE IF paths[i] = "missing" THEN TriesNextPathFrom(paths, i + 1)
  ELSE IF paths[i] = "cookies" THEN [read |-> {i}, found |-> TRUE]
  ELSE LET rest == TriesNextPathFrom(paths, i + 1)
       IN [read |-> {i} \cup rest.read, found |-> rest.found]

TriesNextPath(paths, o) ==
  IF o.manualLogin \/ o.remoteChrome THEN [read |-> {}, found |-> FALSE]
  ELSE TriesNextPathFrom(paths, 1)

RECURSIVE readFirstFrom(_, _)
readFirstFrom(paths, i) ==
  IF i > Len(paths) THEN [read |-> {}, found |-> FALSE]
  ELSE IF paths[i] = "missing" THEN readFirstFrom(paths, i + 1)
  ELSE [read |-> {i}, found |-> paths[i] = "cookies"]

\* The loop over cookieDbPaths: a path that does not exist is passed over;
\* the first one that exists is read and the loop ends, with its cookies
\* or, after 'break', without any.  Manual-login and attach mode skip the loop.
storeBranch(paths, o) ==
  IF o.manualLogin \/ o.remoteChrome THEN [read |-> {}, found |-> FALSE]
  ELSE readFirstFrom(paths, 1)

\* resolveCookies from the store branch to its return.
ReadStorePaths ==
  /\ pc = "cookies" /\ ckPc = "store"
  /\ LET scan == storeBranch(cookiePaths, opts)
     IN /\ pathsRead' = scan.read
        /\ cookies' = IF scan.found THEN {"store"} ELSE {}
        /\ consulted' = IF scan.read = {} THEN consulted ELSE Append(consulted, "store")
  /\ ckPc' = "set"
  /\ UNCHANGED <<sources, resolutions, cookiePaths, besideSp, engineLocals, pc, outVars>>

RECURSIVE PathLists(_)
PathLists(n) ==
  IF n = 0 THEN {<<>>}
  ELSE LET shorter == PathLists(n - 1)
       IN shorter \cup {Append(l, c) : l \in {x \in shorter : Len(x) = n - 1},
                                       c \in PathStates}

\* runGrokBrowser inside resolveCookies, with no inline, file or auto-loaded
\* cookies, for every content of the candidate paths.
InitStorePaths ==
  /\ NoSessions
  /\ \E o \in GrokOptions({3000}, ResponseTimeouts) :
       /\ \A f \in Flags \ {"manualLogin", "remoteChrome"} : ~o[f]
       /\ opts = o
       /\ launcher = ~o.remoteChrome
  /\ pc = "cookies"
  /\ ctx = "none" /\ round = 0 /\ kind = "none" /\ page = BlankPage
  /\ sawLoginPage = FALSE /\ sawLoginOnly = FALSE /\ midChallenge = "none"
  /\ client = TRUE /\ attempt = 0
  /\ closed = FALSE /\ killed = FALSE
  /\ now = 0 /\ waitLeft = 0
  /\ authed = "unchecked" /\ acted = {} /\ ev = {"stealth"}
  /\ capT = 0 /\ lastText = "" /\ stableCount = 0
  /\ lastSeen = "" /\ streak = 0 /\ calm = 0 /\ lastElapsed = 0
  /\ answer = "" /\ result = "none" /\ imageUrl = "unset"
  /\ err = "none" /\ durationMs = 0
  /\ MainIdle(NoFlags, "none")
  /\ CookiesIdle(NoSources, "store")
  /\ NoRead /\ NoToggles /\ NoDetect /\ NoLocate /\ NoSubmit /\ NoChannel
  /\ \E paths \in PathLists(MaxPaths) : StorePathsIdle(paths)

NextStorePaths == ReadStorePaths \/ SetCookies \/ Navigate \/ Teardown

SpecStorePaths == InitStorePaths /\ [][NextStorePaths]_vars

\* ------------------------------------------ the session store, one operation
SessionIdLen == 16
SessionIdBytes == 8

HexDigits == <<"0", "1", "2", "3", "4", "5", "6", "7", "8", "9",
               "a", "b", "c", "d", "e", "f">>

IsHexDigit(c) == \E i \in 1..Len(HexDigits) : HexDigits[i] = c

ValidateLengthOnly(id) == Len(id) = SessionIdLen

\* SESSION_ID_RE.test(sessionId), /^[0-9a-f]{16}$/: in JavaScript $ matches
\* at the very end only.
validateSessionId(id) ==
  Len(id) = SessionIdLen /\ \A i \in 1..Len(id) : IsHexDigit(id[i])

\* The bytes crypto.randomBytes is sampled at.
SampleBytes == {0, 154, 255}

\* Buffer.toString('hex'): two lowercase digits per byte.
toHex(bytes) ==
  [i \in 1..(2 * Len(bytes)) |->
     LET b == bytes[(i + 1) \div 2]
     IN HexDigits[(IF i % 2 = 1 THEN b \div 16 ELSE b % 16) + 1]]

\* generateSessionId
GeneratedIds == {toHex(bytes) : bytes \in [1..SessionIdBytes -> SampleBytes]}

\* getSessionsDir(), segment by segment.
SessionsDir == << <<"home">>, <<".grok">>, <<"sessions">> >>

\* A relative path split at its separators.
RECURSIVE Segments(_)
Segments(s) ==
  IF s = <<>> THEN << <<>> >>
  ELSE LET rest == Segments(Tail(s))
       IN IF Head(s) = "/" THEN << <<>> >> \o rest
          ELSE << <<Head(s)>> \o Head(rest) >> \o Tail(rest)

RECURSIVE Normalize(_, _)
Normalize(base, segs) ==
  IF segs = <<>> THEN base
  ELSE IF Head(segs) \in {<<>>, <<".">>} THEN Normalize(base, Tail(segs))
  ELSE IF Head(segs) = <<".", ".">>
  THEN Normalize(IF base = <<>> THEN base ELSE SubSeq(base, 1, Len(base) - 1), Tail(segs))
  ELSE Normalize(Append(base, Head(segs)), Tail(segs))

\* path.resolve(dir, rel): an absolute rel replaces dir; '.', '..' and empty
\* segments are resolved away.
pathResolve(dir, rel) ==
  IF rel # <<>> /\ Head(rel) = "/" THEN Normalize(<<>>, Segments(rel))
  ELSE Normalize(dir, Segments(rel))

\* resolved.startsWith(dir + path.sep) || resolved === dir
StaysInside(dir, resolved) ==
  \/ Len(resolved) > Len(dir) /\ SubSeq(resolved, 1, Len(dir)) = dir
  \/ resolved = dir

\* sessionPath / bundlePath: validation, then the resolved path and the
\* check that it stays inside the sessions directory.
storePath(id, suffix) ==
  IF ~validateSessionId(id) THEN [threw |-> TRUE, path |-> <<>>]
  ELSE LET resolved == pathResolve(SessionsDir, Append(id, suffix))
       IN IF StaysInside(SessionsDir, resolved)
          THEN [threw |-> FALSE, path |-> resolved]
          ELSE [threw |-> TRUE, path |-> <<>>]

sessionPath(id) == storePath(id, ".json")
bundlePath(id) == storePath(id, "-bundle.md")

\* mkdirSync of the sessions directory, then the path helper, then
\* writeFileSync, which may fail.
Save(op, file) ==
  /\ pc = "idle" /\ ssOp = "none"
  /\ ssOp' = op
  /\ dirMade' = TRUE
  /\ IF file.threw
     THEN ssResult' = "threw" /\ touched' = {}
     ELSE ssResult' \in {"written", "threw"} /\ touched' = {file.path}
  /\ UNCHANGED <<sid, generated, besideSs, engineLocals, pc, outVars>>

\* try { path helper; existsSync; readFileSync (and JSON.parse) } catch { null }
Load(op, file) ==
  /\ pc = "idle" /\ ssOp = "none"
  /\ ssOp' = op
  /\ IF file.threw
     THEN ssResult' = "null" /\ touched' = {}
     ELSE ssResult' \in {"value", "null"} /\ touched' = {file.path}
  /\ UNCHANGED <<sid, generated, dirMade, besideSs, engineLocals, pc, outVars>>

SaveSession == Save("saveSession", sessionPath(sid))
SaveBundleText == Save("saveBundleText", bundlePath(sid))
LoadSession == Load("loadSession", sessionPath(sid))
LoadBundle == Load("loadBundle", bundlePath(sid))

GenerateSessionId ==
  /\ pc = "idle" /\ ssOp = "none" /\ ~generated
  /\ sid' \in GeneratedIds
  /\ generated' = TRUE
  /\ UNCHANGED <<ssOp, ssResult, touched, dirMade, besideSs, engineLocals, pc, outVars>>

\* A well-formed id and the ids a caller can pass instead: the id with one
\* character replaced, shortened, lengthened, empty, and ids of the right
\* length that hold path syntax.
WellFormedId == [i \in 1..SessionIdLen |-> IF i % 2 = 1 THEN "3" ELSE "c"]

ForeignChars == {"A", "g", "/", ".", "\\", " ", "\n"}

CallerIds ==
  {WellFormedId, <<>>, SubSeq(WellFormedId, 1, SessionIdLen - 1)}
  \cup {Append(WellFormedId, c) : c \in ForeignChars \cup {"0"}}
  \cup {[WellFormedId EXCEPT ![i] = c] : i \in {1, 2, SessionIdLen}, c \in ForeignChars}
  \cup {<<".", ".", "/">> \o SubSeq(WellFormedId, 1, SessionIdLen - 3),
        <<".", ".", "/", ".", ".", "/">> \o SubSeq(WellFormedId, 1, SessionIdLen - 6),
        <<"a", "/">> \o SubSeq(WellFormedId, 1, SessionIdLen - 2)}

InitSessions ==
  /\ \E o \in GrokOptions({3000}, ResponseTimeouts) :
       /\ \A f \in Flags : ~o[f]
       /\ InitState(o, "idle")
  /\ MainIdle(NoFlags, "none")
  /\ CookiesIdle(NoSources, "none")
  /\ NoRead /\ NoToggles /\ NoDetect /\ NoLocate /\ NoSubmit /\ NoChannel /\ NoStorePaths
  /\ \E id \in CallerIds : SessionsIdle(id)

NextSessions ==
  \/ GenerateSessionId \/ SaveSession \/ SaveBundleText \/ LoadSession \/ LoadBundle

SpecSessions == InitSessions /\ [][NextSessions]_vars

\* ===================================================================== claims
Finished == pc = "done"
Succeeded == pc = "done" /\ err = "none"
CaptureEnded == pc \notin {"capture", "capPrompt"}

\* C1: on every exit path taken after the client was obtained, client.close()
\* has been attempted when runGrokBrowser completes, with or without keepBrowser.
C1_CloseAlwaysAttempted == (Finished /\ client) => closed

\* A run that kept the browser and ended in an error still closed the client.
C1_Witness == Finished /\ client /\ opts.keepBrowser /\ err # "none" /\ closed

\* C2: when runGrokBrowser completes, the browser process has been killed if
\* and only if this run launched it and keepBrowser is off; never in attach mode,
\* and also when the CDP connection never succeeded.
C2_KillIffLaunchedNotKept ==
  /\ Finished => (killed <=> (launcher /\ ~opts.keepBrowser))
  /\ opts.remoteChrome => ~launcher /\ ~killed
  /\ ~Finished => ~killed

\* A launched Chrome that never accepted a CDP connection was killed.
C2_Witness == Finished /\ launcher /\ ~client /\ killed /\ err = "TransportError"

\* C3: when a detection round of checkAndHandleChallenges yields login-wall, the
\* next step is the terminal error, and after it no detection, prompt, input
\* location, paste or submit happens.
C3_LoginWallAborts ==
  [][ /\ (pc = "handle" /\ kind = "login-wall" /\ ctx \in {"initial", "recheck"})
         => (pc' = "finally" /\ err' = "ChallengeUnresolved" /\ ev' = {})
      /\ err = "ChallengeUnresolved"
         => /\ ev' \cap {"detect", "prompt", "find", "toggle", "paste", "submit", "poll"} = {}
            /\ acted' = acted
            /\ err' = err ]_vars

\* The recheck before the second input-location attempt found the login wall.
C3_Witness ==
  Finished /\ err = "ChallengeUnresolved" /\ ctx = "recheck" /\ "find" \in acted

C5_PartialResultLaw ==
  /\ result = "partial" => (answer = lastSeen /\ answer # "")
  /\ err = "CaptureTimeout" => lastSeen = ""

\* The text changed during capture and the latest one came back as partial.
C5_Witness ==
  result = "partial" /\ answer = TextB /\ lastSeen = TextB /\ streak = 0 /\ stableCount > 0

\* C6: a capture in which no poll saw text fails with the capture-timeout error,
\* and no capture returns the empty string.
C6_TimeoutWithoutText ==
  /\ (CaptureEnded /\ lastSeen = "") => (err = "CaptureTimeout" /\ result = "none")
  /\ result \in {"answer", "partial"} => Len(answer) > 0

\* The deadline passed without any text.
C6_Witness == CaptureEnded /\ lastSeen = "" /\ err = "CaptureTimeout" /\ lastElapsed > 0

\* C7: once the same text was seen without busy indicator on STABLE_NEEDED + 1
\* consecutive polls (poll k and the STABLE_NEEDED after it), capture is no
\* longer polling, and a completed capture returns the text it saw last.
C7_StabilityLaw ==
  /\ pc = "capture" => calm <= STABLE_NEEDED
  /\ result = "answer" => answer = lastSeen

\* Returned exactly STABLE_NEEDED polls after the text first appeared.
C7_Witness ==
  result = "answer" /\ calm = STABLE_NEEDED + 1 /\ stableCount = STABLE_NEEDED
    /\ streak = STABLE_NEEDED + 1

\* C8: with the busy indicator stuck, capture is no longer polling after a poll
\* at which the text was the same for the STABLE_NEEDED + 1 latest polls and
\* the elapsed time exceeded the grace period; a capture that returned under a
\* busy indicator returned the text it saw last, with the counter at the
\* threshold and the grace period over.
C8_GraceOverride ==
  /\ pc = "capture"
       => ~(streak >= STABLE_NEEDED + 1 /\ lastElapsed > STABLE_IGNORE_LOADING_AFTER_MS)
  /\ (result = "answer" /\ calm = 0)
       => /\ answer = lastSeen
          /\ stableCount >= STABLE_NEEDED
          /\ lastElapsed > STABLE_IGNORE_LOADING_AFTER_MS

\* Returned under a busy indicator, after the grace period and before the deadline.
C8_Witness ==
  result = "answer" /\ calm = 0 /\ lastElapsed > STABLE_IGNORE_LOADING_AFTER_MS
    /\ lastElapsed < opts.responseTimeout

\* C9 as stated: runGrokBrowser returns a result only if the auth check passed
\* and the expected output was obtained (text, partial text, or an image).
C9_NoSilentSuccess ==
  Succeeded => /\ authed = "yes"
               /\ result \in {"answer", "partial", "image"}
               /\ result = "image" => imageUrl \in {"https", "blob"}

\* C10 as stated: no run returns a result after lasting browserTimeout or longer.
C10_BrowserTimeoutBoundsRun == Succeeded => durationMs < opts.browserTimeout


MainEnded == mainPc \in {"returned", "exited"}

\* C11 as stated: a main command run with --copy copies the bundle and never
\* calls runGrokBrowser nor creates a session record, with or without --dry-run.
C11_CopyNeverOpensBrowser ==
  cli.copy => (browserCalls = 0 /\ sessionStatus = "absent" /\ ~sessionId)

\* C12: a main command run with --dry-run never calls runGrokBrowser, generates
\* no session id and writes no session or bundle file, whatever the other
\* flags, and returns without calling process.exit.
C12_DryRunStopsBeforeSession ==
  cli.dryRun => /\ browserCalls = 0 /\ pc = "idle"
                /\ ~sessionId /\ ~bundleSaved /\ sessionStatus = "absent"
                /\ mainPc \in {"start", "returned"}
                /\ exitCode = "none" /\ ~outputFile

\* A dry run given together with --copy and --write-output has returned after
\* printing the bundle.
C12_Witness ==
  cli.dryRun /\ cli.copy /\ cli.writeOutput /\ mainPc = "returned" /\ "bundle" \in printed

\* C17 as stated: when the main command has ended with a session created, the
\* record is 'completed' exactly when runGrokBrowser returned a result and
\* 'failed' exactly when it threw, a record once 'completed' stays so, and a
\* failed run has exited with a non-zero code.
C17_StatusFollowsBrowserOutcome ==
  /\ (MainEnded /\ sessionId)
       => /\ sessionStatus = "completed" <=> (browserCalls = 1 /\ err = "none")
          /\ sessionStatus = "failed" <=> (browserCalls = 1 /\ err # "none")
  /\ wasCompleted => sessionStatus = "completed"
  /\ sessionStatus = "failed" => exitCode = 1


\* C13 as stated: in manual-login mode input location is attempted only after
\* the auth check passed, and before that the run is not aborted by the login
\* page: it raises no ChallengeUnresolved, and a wait timeout only once
\* browserTimeout has run out.
C13_ManualLoginWaitsForSignIn ==
  opts.manualLogin
    => /\ "find" \in acted => authed = "yes"
       /\ "find" \notin acted => err # "ChallengeUnresolved"
       /\ err = "WaitTimeout" /\ "find" \notin acted => now >= opts.browserTimeout


Priority(s) == CHOOSE i \in 1..Len(SourceNames) : SourceNames[i] = s
Resolved == ckPc = "done" /\ err = "none"

\* C14: the sources are consulted in the order inline data, inline file,
\* auto-discovered file, browser store; the credential set comes from one
\* source only, the consulted source that holds cookies, after which no
\* lower-priority source is consulted; no higher-priority source holds cookies;
\* and the set is resolved once, before navigation, and is the same afterwards.
C14_FirstSourceWins ==
  /\ \A i, j \in 1..Len(consulted) :
       i < j => Priority(consulted[i]) < Priority(consulted[j])
  /\ Cardinality(cookies) <= 1
  /\ \A s \in cookies :
       /\ sources[s] = "set"
       /\ consulted # <<>> /\ consulted[Len(consulted)] = s
       /\ \A t \in DOMAIN sources : Priority(t) < Priority(s) => sources[t] # "set"
  /\ \A i \in 1..Len(consulted) :
       (sources[consulted[i]] = "set" /\ ckPc # "done") => i = Len(consulted)
  /\ resolutions <= 1
  /\ pc \in {"navigate", "detect"} => (Resolved /\ resolutions = 1)
  /\ (Resolved /\ cookies = {})
       => \A i \in 1..Len(consulted) : sources[consulted[i]] # "set"

\* The run navigated with the cookies of the browser store, after the
\* auto-discovered file was consulted and held none.
C14_Witness ==
  /\ pc = "detect" /\ cookies = {"store"}
  /\ consulted = <<"auto", "store">> /\ sources["auto"] = "empty"


ReadEnded == rdPc \in {"returned", "threw"}

\* C15 as stated: whenever readChromeCookies has returned or thrown after
\* creating its temporary directory, the directory and the copied database in
\* it have been removed.
C15_TempDirAlwaysRemoved ==
  (ReadEnded /\ tmpDir # "none") => (tmpDir = "removed" /\ ~tmpDb)

\* An encrypted value is present and does not decrypt: no key, too short, a
\* corrupted version prefix, a malformed ciphertext or the wrong key.
Undecryptable(e, key) ==
  /\ EncLen(e) > 0
  /\ \/ ~key
     \/ EncLen(e) < 3
     \/ e.prefix \notin {"v10", "v11"}
     \/ e.body \in {"malformed", "otherKey"}

ReturnedRows == {c.row : c \in rdCookies}

\* C16: when the query succeeded, readChromeCookies returns a list (it does not
\* throw) that leaves out every row with empty plaintext and an encrypted value
\* that does not decrypt, and holds every row that has a plaintext value, or
\* no encrypted value, or an encrypted value that decrypts to a value.
C16_UndecryptableRowSkipped ==
  /\ (ReadEnded /\ dbState = "ok") => rdResult = "cookies"
  /\ rdResult = "threw" => dbState = "badSchema"
  /\ rdResult = "cookies"
       => \A r \in rows :
            /\ (r.plain = "" /\ Undecryptable(r.enc, macKey)) => r \notin ReturnedRows
            /\ r.plain # "" => [row |-> r, value |-> r.plain] \in rdCookies
            /\ r.enc = NoEnc => r \in ReturnedRows
            /\ (r.plain = "" /\ macKey /\ r.enc.prefix \in {"v10", "v11"}
                  /\ r.enc.body = "good")
                 => [row |-> r, value |-> SecretValue] \in rdCookies

\* A read with a key returned one row and left out one whose version prefix is
\* corrupted.
C16_Witness ==
  /\ rdResult = "cookies" /\ macKey /\ Cardinality(rows) = 2
  /\ Cardinality(rdCookies) = 1
  /\ \E r \in rows \ ReturnedRows : r.plain = "" /\ r.enc.prefix = "v12" /\ r.enc.body = "good"


\* C18 as stated: a captcha pause does not last forever: it ends with the
\* human's acknowledgment, or else the run ends with ChallengeUnresolved and
\* the teardown done.
C18_UnacknowledgedPauseEnds ==
  (pc = "prompt")
    ~> (ev = {"prompt"} \/ (pc = "done" /\ err = "ChallengeUnresolved" /\ closed))


\* C19 as stated: handling a Cloudflare challenge in headless mode takes one
\* step that neither re-detects (polls for self-clearance) nor goes on to the
\* console prompt.
C19_HeadlessCloudflareDoesNotBlock ==
  [][ (opts.headless /\ pc = "handle"
         /\ kind \in {"cloudflare-challenge", "cloudflare-turnstile"})
        => ("detect" \notin ev' /\ pc' # "prompt" /\ now' = now) ]_vars


\* C20 as stated: two calls of a mode's toggle on a control that was already
\* active have made exactly one click.
C20_TwoCallsOnActiveOneClick ==
  \A m \in Modes :
    (toggleCalls[m] = 2 /\ controls0[m] = "active") => clicks[m] = 1

\* C20 amended: the toggle clicks a control only when it is not active: two
\* (or more) calls on a control that was already active have made no click
\* and left it active, and two (or more) calls on a control that was inactive,
\* on a page whose click activates it, have made exactly one click.
C20_ToggleIdempotent ==
  \A m \in Modes :
    toggleCalls[m] >= 2
      => /\ controls0[m] = "active" => (clicks[m] = 0 /\ controls[m] = "active")
         /\ (controls0[m] = "inactive" /\ clickWorks)
              => (clicks[m] = 1 /\ controls[m] = "active")
         /\ controls0[m] = "absent" => clicks[m] = 0

\* Think was toggled twice from inactive with one click, DeepSearch twice from
\* active with none.
C20_Witness ==
  /\ toggleCalls["think"] = 2 /\ controls0["think"] = "inactive" /\ clickWorks
  /\ clicks["think"] = 1
  /\ toggleCalls["deepSearch"] = 2 /\ controls0["deepSearch"] = "active"
  /\ clicks["deepSearch"] = 0


C22_ScenarioA ==
  [](kind = "none" /\ midChallenge = "none")
    => []((Succeeded /\ result = "answer")
            => (answer # "" /\ durationMs < opts.responseTimeout))

\* The classes in the order the claim fixes, and the pages each one matches.
KindOrder ==
  <<"cloudflare-challenge", "cloudflare-turnstile", "arkose-funcaptcha", "recaptcha",
    "hcaptcha", "login-wall", "none">>

MarkerOf ==
  [k \in {"cloudflare-challenge", "cloudflare-turnstile", "arkose-funcaptcha", "recaptcha",
          "hcaptcha"} |->
     CASE k = "cloudflare-challenge" -> "interstitial"
       [] k = "cloudflare-turnstile" -> "turnstile"
       [] k = "arkose-funcaptcha" -> "arkose"
       [] k = "recaptcha" -> "recaptcha"
       [] k = "hcaptcha" -> "hcaptcha"]

MatchesClass(p, k) ==
  IF k = "none" THEN TRUE
  ELSE IF k = "login-wall" THEN IsLoginRedirectUrl(p.url)
  ELSE MarkerOf[k] \in p.markers

\* C23: every evaluation returned one value of the enumeration; on a page it
\* could inspect, the value is a class the page matches and the page matches
\* no class earlier in the order, and 'none' is returned only when no marker
\* and no login URL matches.
C23_FirstMatchWins ==
  \A n \in 1..Len(detections) :
    LET d == detections[n] IN
      /\ d.value \in ChallengeKind
      /\ d.page.ok
           => \E i \in 1..Len(KindOrder) :
                /\ d.value = KindOrder[i]
                /\ MatchesClass(d.page, KindOrder[i])
                /\ \A j \in 1..(i - 1) : ~MatchesClass(d.page, KindOrder[j])

\* A login page that shows a Turnstile widget and a reCAPTCHA was classified
\* as the widget challenge, and the bare login page as the login wall.
C23_Witness ==
  /\ Len(detections) >= 2
  /\ detections[1].page.markers = {"turnstile", "recaptcha"}
  /\ IsLoginRedirectUrl(detections[1].page.url)
  /\ detections[1].value = "cloudflare-turnstile"
  /\ detections[2].page.markers = {} /\ detections[2].value = "login-wall"

\* C24 as stated: a challenge detected by a capture poll that saw no text is
\* dispatched by kind as after navigation: login-wall ends the run with the
\* terminal error, and a Cloudflare kind is not taken straight to the console
\* prompt but polled for self-clearance first.
C24_MidCaptureDispatch ==
  [][ (pc = "capture" /\ "detect" \in ev' /\ midChallenge' # "none")
        => /\ midChallenge' = "login-wall"
                => (pc' = "finally" /\ err' = "ChallengeUnresolved")
           /\ midChallenge' \in {"cloudflare-challenge", "cloudflare-turnstile"}
                => pc' # "capPrompt" ]_vars

\* C25 as stated: while capture polls, the stability counter is the number of
\* latest consecutive polls that repeated the text of the poll before them, and
\* a text returned as complete was seen on the STABLE_NEEDED + 1 latest
\* consecutive polls, none of them without text or failed.
C25_ConsecutiveCounter ==
  /\ (pc = "capture" /\ streak > 0) => stableCount = streak - 1
  /\ (pc = "capture" /\ streak = 0) => stableCount = 0
  /\ result = "answer" => streak >= STABLE_NEEDED + 1

\* C26: a capture that returned its text as complete did so at a poll where
\* the stability counter had reached STABLE_NEEDED and either no busy indicator
\* was present or the elapsed time exceeded the grace period; every other way
\* out of capture, the partial text and the timeout error, is taken at the
\* deadline only.
C26_EarlyReturnGuard ==
  /\ result = "answer"
       => /\ stableCount >= STABLE_NEEDED
          /\ calm > 0 \/ lastElapsed > STABLE_IGNORE_LOADING_AFTER_MS
  /\ (result = "partial" \/ err = "CaptureTimeout") => capT >= opts.responseTimeout

\* The counter passed the threshold under a busy indicator inside the grace
\* period, and the text was returned at the first poll without the indicator.
C26_Witness ==
  /\ result = "answer" /\ stableCount > STABLE_NEEDED /\ calm = 1
  /\ lastElapsed <= STABLE_IGNORE_LOADING_AFTER_MS
  /\ lastElapsed < opts.responseTimeout


CloudflareKinds == {"cloudflare-challenge", "cloudflare-turnstile"}
CaptchaKinds == {"arkose-funcaptcha", "recaptcha", "hcaptcha"}
MaxRedetections == ChallengeGoneTimeoutMs \div ChallengeGonePollMs

\* C27: with a visible window, a Cloudflare kind is first waited on: the wait
\* makes at most 30 re-detections, one per second or slower; it goes on only
\* while every re-detection returned the handled kind; a re-detection that
\* returns 'none' or another kind ends the handling at once, without a prompt;
\* and the console prompt is reached only from the wait, once its 30 s are
\* over and every re-detection returned the handled kind.
C27_SelfClearanceThenPause ==
  [][ ~opts.headless
        => /\ (pc = "handle" /\ kind \in CloudflareKinds) => pc' = "gone"
           /\ pc' = "gone"
                => /\ Len(polled') <= MaxRedetections
                   /\ \A i \in 1..Len(polled') : polled'[i] = kind'
                   /\ waitLeft' <= ChallengeGoneTimeoutMs - Len(polled') * ChallengeGonePollMs
           /\ (pc = "gone" /\ polled' # polled /\ polled'[Len(polled')] # kind)
                => /\ pc' \notin {"gone", "prompt"}
                   /\ "prompt" \notin ev'
           /\ (pc' = "prompt" /\ kind' \in CloudflareKinds /\ pc # "prompt")
                => /\ pc = "gone" /\ waitLeft = 0
                   /\ polled' # <<>>
                   /\ \A i \in 1..Len(polled') : polled'[i] = kind' ]_vars

\* Thirty re-detections one second apart all returned the handled kind and
\* the handler is suspended at the prompt, in a run with a visible window.
C27_Witness ==
  /\ ~opts.headless /\ pc = "prompt" /\ kind \in CloudflareKinds
  /\ Len(polled) = MaxRedetections

\* C28: handling a puzzle-captcha, recaptcha or hcaptcha goes straight to the
\* console prompt, without any re-detection and without time passing; the
\* handler stays there until the acknowledgment, which is the only way out,
\* and the run resumes after the settle delay.
C28_CaptchaAlwaysPauses ==
  [][ /\ (pc = "handle" /\ kind \in CaptchaKinds)
           => /\ pc' = "prompt" /\ kind' = kind
              /\ "detect" \notin ev' /\ polled' = polled
              /\ now' = now
      /\ (pc = "prompt" /\ kind \in CaptchaKinds)
           => /\ ev' = {"prompt"} /\ pc' \in {"detect", "auth"}
              /\ now' >= Min(now + SettleMs(kind), MaxClock)
              /\ polled' = polled
      /\ (pc' = "prompt" /\ kind' \in CaptchaKinds) => pc = "handle" ]_vars

\* The captcha of the first round was acknowledged and the second round is
\* about to detect; no self-clearance wait was made in this call.
C28_Witness == pc = "detect" /\ round = 1 /\ ev = {"prompt"} /\ polled = <<>>

\* C29: a call of checkAndHandleChallenges never enters a fourth round; a
\* detection that yields 'none' returns at once; a handled challenge is
\* followed by the next round's detection in rounds one and two, and by the
\* return, with no detection in between, in round three.
C29_BoundedRounds ==
  [][ /\ round' < maxRounds
      /\ (pc = "detect" /\ kind' = "none") => pc' = "auth"
      /\ (pc = "detect" /\ kind' # "none") => (pc' = "handle" /\ round' = round)
      /\ (pc \in {"prompt", "gone"} /\ pc' \notin {"prompt", "gone"})
           => IF round + 1 < maxRounds
              THEN pc' = "detect" /\ round' = round + 1
              ELSE pc' = "auth" ]_vars

\* The call returned right after the third acknowledgment: nothing says the
\* page is clear.
C29_Witness == pc = "auth" /\ ev = {"prompt"} /\ ctx = "none"

\* C30: the first wait for the input is entered once, from the auth check; the
\* challenge recheck is entered only from a first wait that failed, after its
\* 30 s; the second wait is entered only from that recheck, and ends in the
\* next interaction step or, after its 15 s, in the locator error; and once
\* that error is raised no toggle, paste or submit has been or will be made.
C30_InputLocationRetry ==
  [][ /\ pc' = "findInput1" => pc \in {"auth", "manualVerify"}
      /\ pc = "findInput1"
           => /\ pc' \in {AfterInput(opts), "detect"}
              /\ pc' = "detect"
                   => /\ ctx' = "recheck" /\ round' = 0
                      /\ now' = Min(now + FindInputTimeoutMs, MaxClock)
      /\ (ctx' = "recheck" /\ ctx # "recheck") => pc = "findInput1"
      /\ (pc' = "findInput2" /\ pc # "findInput2")
           => (ctx = "recheck" /\ pc \in {"detect", "handle", "prompt"})
      /\ pc = "findInput2"
           => /\ pc' \in {AfterInput(opts), "finally"}
              /\ pc' = "finally"
                   => /\ err' = "LocatorNotFound"
                      /\ now' = Min(now + FindInputRetryTimeoutMs, MaxClock)
      /\ err' = "LocatorNotFound"
           => /\ acted' = {"find"}
              /\ ev' \cap {"toggle", "paste", "submit", "poll"} = {}
              /\ pc' \in {"finally", "done"} ]_vars

\* Both waits failed and the run was torn down.
C30_Witness == pc = "done" /\ err = "LocatorNotFound" /\ acted = {"find"} /\ closed

\* The selectors of the list that match the page.
Matching == {i \in 1..Len(selectors) : Present(selectors[i])}

\* C31: findElement returns the first selector of the list, in list order,
\* that matches the page, and null only when every selector missed; a selector
\* whose evaluation throws counts as a miss and does not stop the scan.
C31_FirstMatchInListOrder ==
  located # -1 =>
    /\ located = 0 <=> Matching = {}
    /\ located # 0 => (located \in Matching /\ \A j \in Matching : located <= j)

\* A probe that passed over a throwing selector and a miss and returned the third.
C31_Witness ==
  /\ Len(selectors) = 3 /\ selectors[1] = "error" /\ selectors[2] = "miss"
  /\ located = 3

\* The submission actions of a call, as a set.
Sent == {sent[i] : i \in 1..Len(sent)}

\* C32: a call of submitPrompt that returns has made exactly one submission
\* action, the click or the Enter key-down and key-up, and no call makes both
\* a click and the key-press fallback.
C32_ExactlyOneSubmission ==
  /\ ~("click" \in Sent /\ "keyDown" \in Sent)
  /\ pc = "submitted" => sent \in {<<"click">>, <<"keyDown", "keyUp">>}

\* The first selector of the list that yields an element (0: none does).
FirstFound == IF Matching = {} THEN 0 ELSE CHOOSE i \in Matching : \A j \in Matching : i <= j

\* C33 as stated: the toggle script clicks a control only if it is not marked
\* active, and per call it makes at most one click, on the first control found
\* in selector order.
C33_ClickOnFirstFound ==
  toggled.returned # -1 =>
    /\ Cardinality(toggled.clicked) <= 1
    /\ \A i \in toggled.clicked :
         i = FirstFound /\ ControlOf(selectors[i]) = "inactive"

\* C33, amended: the toggle script clicks a control only if it is not marked
\* active; when the first control found is marked active nothing is clicked;
\* per call at most one click is made, on the control the script returns,
\* which is the first one in selector order it handled without an error:
\* every selector before it is a miss, a query that throws, or an unmarked
\* element whose click throws.
C33_ClickOnFirstHandled ==
  toggled.returned # -1 =>
    /\ Cardinality(toggled.clicked) <= 1
    /\ \A i \in toggled.clicked :
         /\ i = toggled.returned /\ selectors[i] = "inactive"
         /\ \A j \in 1..(i - 1) : selectors[j] \in {"miss", "error", "unclickable"}
    /\ (FirstFound # 0 /\ selectors[FirstFound] = "active") => toggled.clicked = {}
    /\ (FirstFound # 0 /\ selectors[FirstFound] = "inactive") => toggled.clicked = {FirstFound}

\* The script passed over an element it could not click and clicked the control
\* behind it.
C33_Witness ==
  /\ Len(selectors) = 3 /\ selectors[1] = "miss" /\ selectors[2] = "unclickable"
  /\ toggled.returned = 3 /\ toggled.clicked = {3}

\* The place of a position of runGrokBrowser in the order of section 4.1:
\* 1 transport connect, 2 stealth registration, 3 credential resolution and
\* cookie injection, 4 navigation, 5 initial challenge pass and login check,
\* 6 input location, 7 mode toggles, 8 text insertion, 9 submit, 10 response
\* capture, 11 secondary artifact capture, 12 teardown, 13 returned.
Stage ==
  CASE pc \in {"start", "connect", "enable"} -> 1
    [] pc = "stealth" -> 2
    [] pc = "cookies" -> 3
    [] pc = "navigate" -> 4
    [] pc \in {"detect", "handle", "prompt"} -> IF ctx = "recheck" THEN 6 ELSE 5
    [] pc \in {"auth", "manual", "manualVerify"} -> 5
    [] pc \in {"findInput1", "findInput2"} -> 6
    [] pc \in {"think", "deepSearch"} -> 7
    [] pc = "paste" -> 8
    [] pc = "submit" -> 9
    [] pc \in {"capture", "capPrompt"} -> 10
    [] pc \in {"image", "readAloud"} -> 11
    [] pc = "finally" -> 12
    [] OTHER -> 13

\* C34: every step of a run moves forward in the order transport connect,
\* stealth registration, cookies, navigation, initial challenge pass, input
\* location, mode toggles, text insertion, submit, response capture,
\* secondary artifact capture, teardown; each of these is entered only from
\* the one before it (a step that is switched off is skipped), so the
\* navigation is issued only after the stealth and cookie steps completed and
\* capture starts only after the submit step.
C34_StepOrder ==
  [][ /\ Stage <= Stage'
      /\ pc' # pc =>
           /\ pc' = "stealth" => (pc = "enable" /\ client)
           /\ pc' = "cookies" => pc = "stealth"
           /\ pc' = "navigate" => pc = "cookies"
           /\ (ctx' = "initial" /\ ctx # "initial") => (pc = "navigate" /\ pc' = "detect")
           /\ pc' \in {"think", "deepSearch"} => pc \in {"findInput1", "findInput2", "think"}
           /\ pc' = "paste" => pc \in {"findInput1", "findInput2", "think", "deepSearch"}
           /\ pc' = "submit" => (pc = "paste" /\ "paste" \in acted')
           /\ pc' = "capture" => (pc \in {"submit", "capPrompt"} /\ "submit" \in acted')
           /\ pc' = "image" => (pc = "submit" /\ "submit" \in acted')
           /\ pc' = "readAloud" => (pc = "capture" /\ result' # "none")
           /\ pc' = "done" => pc = "finally"
    ]_vars

\* A run with a mode toggle and read-aloud that went through every step and
\* returned an answer.
C34_Witness ==
  /\ Succeeded /\ opts.think /\ opts.readAloud /\ result = "answer"
  /\ acted = {"find", "toggle", "paste", "submit"} /\ closed

\* triggerReadAloud is suspended at one of its awaits.
InReadAloud == pc \in {"mediaEnable", "clickScript", "audioSleep", "audioPoll"}

\* C35: at most one request to the browser is outstanding, and no two engine
\* operations interleave: at most one cookie-store read is in progress, and no
\* event callback has run while an operation is suspended.
C35_SerialNoInterleaving ==
  /\ outstanding <= 1
  /\ Cardinality({d \in Domains : reads[d] = "importing"}) <= 1
  /\ ~(capturedAudioUrl /\ InReadAloud)

\* C36: a launched run makes at most 12 connection attempts and goes on with
\* the first client that connects; when the 12th fails too the run fails with
\* the transport error, without a client, and no domain is enabled and no
\* navigation issued afterwards.  An attached run makes one attempt, whose
\* failure is the transport error at once.
C36_ConnectionAttempts ==
  [][ /\ attempt' <= 12
      /\ pc = "connect" =>
           \/ client' /\ pc' = "enable" /\ err' = "none"
           \/ ~client' /\ pc' = "connect" /\ attempt' = attempt + 1 /\ attempt' < 12
           \/ ~client' /\ pc' = "finally" /\ attempt' = 12 /\ err' = "TransportError"
      /\ (pc = "start" /\ opts.remoteChrome) =>
           \/ client' /\ pc' = "enable" /\ err' = "none"
           \/ ~client' /\ pc' = "finally" /\ attempt' = 0 /\ err' = "TransportError"
      /\ err = "TransportError" =>
           /\ ~client' /\ pc' \in {"finally", "done"} /\ err' = err
           /\ ev' \in {{"connect"}, {"teardown"}}
           /\ ~opts.remoteChrome => attempt = 12
    ]_vars

\* A launched run whose 12 attempts all failed and that was torn down.
C36_Witness ==
  /\ Finished /\ ~opts.remoteChrome /\ launcher /\ attempt = 12
  /\ err = "TransportError" /\ ~client /\ acted = {}

\* The candidate paths at which a store exists.
Existing == {i \in 1..Len(cookiePaths) : cookiePaths[i] # "missing"}

\* C37: once resolveCookies is past the store branch, at most one candidate
\* path was read, the first that exists; when that store had no cookies or
\* its read failed, no later path was read and the run goes on without
\* cookies; in manual-login and attach mode no path is read at all.
C37_FirstExistingStoreOnly ==
  ckPc \in {"set", "done"} =>
    /\ Cardinality(pathsRead) <= 1
    /\ \A i \in pathsRead : i \in Existing /\ \A j \in Existing : i <= j
    /\ (opts.manualLogin \/ opts.remoteChrome) => pathsRead = {}
    /\ (~opts.manualLogin /\ ~opts.remoteChrome /\ Existing # {}) => pathsRead # {}
    /\ (\E i \in pathsRead : cookiePaths[i] \in {"empty", "failing"})
         => (cookies = {} /\ err \in {"none", "ProtocolError"})
    /\ (\E i \in pathsRead : cookiePaths[i] = "cookies") => cookies = {"store"}

\* The first existing store failed to read, a later one holds cookies, and the
\* run navigated without cookies.
C37_Witness ==
  /\ Len(cookiePaths) = 3 /\ cookiePaths[1] = "missing"
  /\ cookiePaths[2] = "failing" /\ cookiePaths[3] = "cookies"
  /\ pathsRead = {2} /\ cookies = {} /\ pc = "detect" /\ err = "none"

\* C38: every text captureResponse returns, as the stable answer or as the
\* partial result at the timeout, is longer than 20 characters, and the
\* tracked text changes only to the text of a poll that is longer than 20
\* characters.
C38_ReturnedTextAboveFloor ==
  [][ /\ result' \in {"answer", "partial"} => Len(answer') > 20
      /\ lastText' # lastText => (Len(lastText') > 20 /\ lastText' = lastSeen')
    ]_vars

\* A capture that saw a short text last, never saw its tracked text settle,
\* and returned the tracked text at the timeout.
C38_Witness ==
  /\ result = "partial" /\ answer = lastText /\ Len(answer) > 20
  /\ stableCount = 0 /\ capT >= opts.responseTimeout

\* Exactly 16 characters, each a digit or one of a..f.
IsLowerHex16(id) ==
  /\ Len(id) = 16
  /\ \A i \in 1..Len(id) :
       id[i] \in {"0", "1", "2", "3", "4", "5", "6", "7", "8", "9",
                  "a", "b", "c", "d", "e", "f"}

\* The file of the sessions directory an operation is meant to use for an id.
OwnFile(op, id) ==
  Append(SessionsDir,
         Append(id, IF op \in {"saveSession", "loadSession"} THEN ".json" ELSE "-bundle.md"))

\* C39: whatever the session id, a store operation touches only a file that
\* lies directly inside the sessions directory; an id that is not exactly 16
\* lowercase hexadecimal characters is rejected, a load returning null and a
\* save throwing, without any file being read or written; and an id from
\* generateSessionId is accepted, the operation using its own file.
C39_SessionIdConfinement ==
  /\ generated => IsLowerHex16(sid)
  /\ ssOp # "none" =>
       /\ \A p \in touched :
            Len(p) = Len(SessionsDir) + 1 /\ SubSeq(p, 1, Len(SessionsDir)) = SessionsDir
       /\ ~IsLowerHex16(sid) =>
            /\ touched = {}
            /\ ssResult = (IF ssOp \in {"loadSession", "loadBundle"} THEN "null" ELSE "threw")
       /\ IsLowerHex16(sid) => touched = {OwnFile(ssOp, sid)}

\* A save called with an id of the right length that holds a path separator
\* was rejected before any file was written.
C39_Witness ==
  /\ ssOp = "saveBundleText" /\ ssResult = "threw" /\ touched = {}
  /\ Len(sid) = 16 /\ sid[2] = "/"

====
